---- MODULE Spec2Model ----
(***************************************************************************)
(* Model of the wds-metrics scripts: the version resolvers, the change     *)
(* detectors of the two trackers, the adoption walk of the analyzer and    *)
(* its metrics aggregation.                                                *)
(*                                                                         *)
(* Strings the code inspects character by character (version strings) are  *)
(* sequences of one-character strings; an override key "a>b>c" is the      *)
(* sequence of its '>'-separated segments <<"a","b","c">>.                 *)
(***************************************************************************)
EXTENDS Integers, Sequences, FiniteSets, TLC

VARIABLES
    r_doc,          \* SpecResolve: the parsed manifest handed to the resolvers
    r_out,          \* SpecResolve: what each resolver returned for r_doc
    r_pc,           \* SpecResolve: "input" | "resolved"
    t_prog,         \* SpecTrack: "multi" (MultiRepoVersionTracker) | "single" (ComponentVersionTracker)
    t_n,            \* SpecTrack: number of commits `git log` returned
    t_docs,         \* SpecTrack: what `git show <commit>:package.json` gave at each commit walked so far
    t_last_versions,\* SpecTrack: the local last_versions
    t_changes,      \* SpecTrack: the local changes
    t_pc,           \* SpecTrack: "start" | "loop" | "done" | "error" | "raised"
    t_result,       \* SpecTrack: the value returned
    a_releases,     \* SpecAdopt: AdoptionAnalyzer.releases, items in insertion order
    a_n,            \* SpecAdopt: number of lines `git log` returned
    a_docs,         \* SpecAdopt: per commit walked so far, the manifest and the author date
    a_last_version, \* SpecAdopt: the local last_version
    a_adoptions,    \* SpecAdopt: the local adoptions
    a_repo_adoptions, \* SpecAdopt: the repository's entry of self.repo_adoptions
    a_metrics,      \* SpecAdopt: the repository's entry of the metrics returned
    a_dashboard,    \* SpecAdopt: the repository's entry of 'repo_adoptions' in the dashboard data
    a_pc,           \* SpecAdopt: "start" | "missing" | "loop" | "walked" | "failed" | "raised" | "calculated" | "done"
    s_releases,     \* SpecSkip: the release table
    s_version1,     \* SpecSkip: count_versions_between's version1
    s_version2,     \* SpecSkip: count_versions_between's version2
    s_result,       \* SpecSkip: the value returned
    s_pc,           \* SpecSkip: "input" | "counted"
    o_repos,        \* SpecOrch: the list get_repo_list returned, each path with the repository found there
    o_parallel,     \* SpecOrch: process_repositories' parallel argument
    o_task,         \* SpecOrch: per repository, its track_repo_version_changes call: "pending" | "running" | "done" | "merged"
    o_runs,         \* SpecOrch: per repository, how many times track_repo_version_changes was started for it
    o_repo_results, \* SpecOrch: self.repo_results, items in insertion order
    o_patterns,     \* SpecOrch: what analyze_adoption_patterns returned
    o_csv,          \* SpecOrch: the rows export_to_csv wrote
    o_pc,           \* SpecOrch: "start" | "pool" | "unwinding" | "seq" | "returned" | "raised" | "analyzed" | "exported"
    d_releases,     \* SpecDash: AdoptionAnalyzer.releases
    d_repo_adoptions, \* SpecDash: self.repo_adoptions, items in insertion order
    d_metrics,      \* SpecDash: the metrics calculate_adoption_metrics returned, items in insertion order
    d_all,          \* SpecDash: the 'All Repos' column buildTable computes
    d_csv,          \* SpecDash: the rows generate_comparison_csv wrote
    d_report,       \* SpecDash: what generate_insights_report printed
    d_pc,           \* SpecDash: "start" | "calculated" | "csv_written" | "reported" | "built"
    m_script,       \* SpecMain: the script whose main() runs
    m_env,          \* SpecMain: what the script finds: files, repositories, results of its steps
    m_exit,         \* SpecMain: the exit status of the process
    m_pc,           \* SpecMain: "start" | "exited"
    w_kind,         \* SpecTwice: whose detector is called: "track" (track_repo_version_changes) | "adopt" (get_repo_adoptions)
    w_repo,         \* SpecTwice: the repository, its commit sequence the same at both calls
    w_first,        \* SpecTwice: what the first call returned
    w_second,       \* SpecTwice: what the second call returned
    w_repo_adoptions, \* SpecTwice: the repository's entry of self.repo_adoptions
    w_pc,           \* SpecTwice: "start" | "once" | "twice"
    u_env,          \* SpecUpdate: config.json, the repositories under the code base path, how the two scripts go
    u_i,            \* SpecUpdate: update_all_repos' position in REPO_NAMES
    u_cmds,         \* SpecUpdate: the git commands run so far, each with its repository
    u_results,      \* SpecUpdate: update_all_repos' results: 'success', 'failed', 'skipped'
    u_trace,        \* SpecUpdate: the steps main has started, in order
    u_exit,         \* SpecUpdate: what main returned
    u_pc            \* SpecUpdate: main's position

resolveVars == <<r_doc, r_out, r_pc>>

trackVars == <<t_prog, t_n, t_docs, t_last_versions, t_changes, t_pc, t_result>>

adoptVars ==
    <<a_releases, a_n, a_docs, a_last_version, a_adoptions, a_repo_adoptions, a_metrics,
      a_dashboard, a_pc>>

skipVars == <<s_releases, s_version1, s_version2, s_result, s_pc>>

orchVars ==
    <<o_repos, o_parallel, o_task, o_runs, o_repo_results, o_patterns, o_csv, o_pc>>

dashVars == <<d_releases, d_repo_adoptions, d_metrics, d_all, d_csv, d_report, d_pc>>

mainVars == <<m_script, m_env, m_exit, m_pc>>

twiceVars == <<w_kind, w_repo, w_first, w_second, w_repo_adoptions, w_pc>>

updateVars == <<u_env, u_i, u_cmds, u_results, u_trace, u_exit, u_pc>>

vars ==
    <<resolveVars, trackVars, adoptVars, skipVars, orchVars, dashVars, mainVars, twiceVars,
      updateVars>>

\* what the actions of one specification leave alone
resolveOthers ==
    <<trackVars, adoptVars, skipVars, orchVars, dashVars, mainVars,
      twiceVars, updateVars>>

trackOthers ==
    <<resolveVars, adoptVars, skipVars, orchVars, dashVars, mainVars,
      twiceVars, updateVars>>

adoptOthers ==
    <<resolveVars, trackVars, skipVars, orchVars, dashVars, mainVars,
      twiceVars, updateVars>>

skipOthers ==
    <<resolveVars, trackVars, adoptVars, orchVars, dashVars, mainVars,
      twiceVars, updateVars>>

orchOthers ==
    <<resolveVars, trackVars, adoptVars, skipVars, dashVars, mainVars,
      twiceVars, updateVars>>

dashOthers ==
    <<resolveVars, trackVars, adoptVars, skipVars, orchVars, mainVars,
      twiceVars, updateVars>>

twiceOthers ==
    <<resolveVars, trackVars, adoptVars, skipVars, orchVars, dashVars, mainVars, updateVars>>

updateOthers ==
    <<resolveVars, trackVars, adoptVars, skipVars, orchVars, dashVars, mainVars, twiceVars>>

mainOthers ==
    <<resolveVars, trackVars, adoptVars, skipVars, orchVars, dashVars,
      twiceVars, updateVars>>

(***************************************************************************)
(* Bounds                                                                  *)
(***************************************************************************)
MaxOverrides == 2

MaxCommits == 4

MaxAdoptCommits == 3

MaxReleases == 4

\* resolution of the modelled clock: datetimes are counted in ticks
TicksPerDay == 2

(***************************************************************************)
(* JSON values and Python truthiness                                       *)
(***************************************************************************)
None == [k |-> "none", s |-> <<>>]

Str(s) == [k |-> "str", s |-> s]

\* Python's `not x` is true of None and of the empty string.
Truthy(x) == x.k = "str" /\ Len(x.s) > 0

\* str.lstrip(chars): drop every leading character that is in chars
RECURSIVE lstrip(_, _)
lstrip(s, chars) ==
    IF s # <<>> /\ Head(s) \in chars THEN lstrip(Tail(s), chars) ELSE s

RangePrefix == {"^", "~"}

\* version literals
v100 == <<"1", ".", "0", ".", "0">>

v120 == <<"1", ".", "2", ".", "0">>

c120 == <<"^", "1", ".", "2", ".", "0">>

v1100 == <<"1", ".", "1", "0", ".", "0">>

v200 == <<"2", ".", "0", ".", "0">>

v999 == <<"9", ".", "9", ".", "9">>

\* str.split(sep): the segments between the separators (always at least one)
RECURSIVE split(_, _)
split(s, sep) ==
    IF s = <<>> THEN << <<>> >>
    ELSE LET rest == split(Tail(s), sep)
         IN IF Head(s) = sep THEN << <<>> >> \o rest
            ELSE << <<Head(s)>> \o Head(rest) >> \o Tail(rest)

Digits == {"0", "1", "2", "3", "4", "5", "6", "7", "8", "9"}

DigitValue(c) ==
    CASE c = "0" -> 0 [] c = "1" -> 1 [] c = "2" -> 2 [] c = "3" -> 3 [] c = "4" -> 4
      [] c = "5" -> 5 [] c = "6" -> 6 [] c = "7" -> 7 [] c = "8" -> 8 [] c = "9" -> 9

\* the value of a run of decimal digits
RECURSIVE DecimalValue(_)
DecimalValue(p) ==
    IF p = <<>> THEN 0
    ELSE 10 * DecimalValue(SubSeq(p, 1, Len(p) - 1)) + DigitValue(p[Len(p)])

\* int(p) over the characters modelled: ValueError unless p is a non-empty
\* run of digits
IntOk(p) == p # <<>> /\ \A i \in 1..Len(p) : p[i] \in Digits

\* Python's `<` on tuples of integers (a proper prefix is smaller)
RECURSIVE TupleLess(_, _)
TupleLess(a, b) ==
    IF b = <<>> THEN FALSE
    ELSE IF a = <<>> THEN TRUE
    ELSE IF Head(a) # Head(b) THEN Head(a) < Head(b)
    ELSE TupleLess(Tail(a), Tail(b))

\* the whole days of a timedelta (timedelta.days: the floor)
Days(ticks) == ticks \div TicksPerDay

\* the tracked package name (self.package_name) and other key segments
PKG == "widgets"

DirectKey == <<PKG>>

(***************************************************************************)
(* Parsed manifests.  A manifest is [other, deps, dev, pnpm]:              *)
(*   other : the document has keys besides the three below                 *)
(*   deps, dev : [k, v]  k = "missing" (key not in the document),          *)
(*               "null" | "list" (present, not a mapping), or "map" with   *)
(*               v = mapping.get(package_name)                             *)
(*   pnpm : [k, ov]  k as above plus "str" | "num"; for "map",             *)
(*          ov = [k, entries] is the value under "overrides", entries      *)
(*          the mapping's items in insertion order [key, value]            *)
(***************************************************************************)
Missing == [k |-> "missing", v |-> None]

NonMap(kind) == [k |-> kind, v |-> None]

Map(v) == [k |-> "map", v |-> v]

OvMissing == [k |-> "missing", entries |-> <<>>]

OvNonMap(kind) == [k |-> kind, entries |-> <<>>]

OvMap(entries) == [k |-> "map", entries |-> entries]

PnpmMissing == [k |-> "missing", ov |-> OvMissing]

PnpmNonMap(kind) == [k |-> kind, ov |-> OvMissing]

PnpmMap(ov) == [k |-> "map", ov |-> ov]

Doc(o, d, dv, p) == [other |-> o, deps |-> d, dev |-> dv, pnpm |-> p]

\* the result of extract_component_versions; raised = an exception left it
Versions(d, o, t) ==
    [raised |-> FALSE, dependency |-> d, override |-> o, transitive_overrides |-> t]

Raised ==
    [raised |-> TRUE, dependency |-> None, override |-> None, transitive_overrides |-> <<>>]

\* dict.get(key) on the items of a mapping
RECURSIVE DictGet(_, _)
DictGet(entries, key) ==
    IF entries = <<>> THEN None
    ELSE IF Head(entries).key = key THEN Head(entries).value
    ELSE DictGet(Tail(entries), key)

\* `">" in key and key.endswith(">" + package_name)`
IsTransitiveKey(key) == Len(key) >= 2 /\ key[Len(key)] = PKG

\* the loop over overrides.items() that collects the transitive overrides
RECURSIVE TransitiveOverrides(_)
TransitiveOverrides(entries) ==
    IF entries = <<>> THEN <<>>
    ELSE LET e == Head(entries)
             rest == TransitiveOverrides(Tail(entries))
         IN IF IsTransitiveKey(e.key)
            THEN <<[parent |-> e.key[1], version |-> e.value]>> \o rest
            ELSE rest

\* `"overrides" in package_json["pnpm"]`: "raise" | "yes" | "no".  A list or a
\* string value of "pnpm" answers the membership test (no), None and a number
\* raise TypeError.
HasOverrides(pnpm) ==
    CASE pnpm.k \in {"null", "num"} -> "raise"
      [] pnpm.k \in {"list", "str"} -> "no"
      [] pnpm.k = "map" -> IF pnpm.ov.k = "missing" THEN "no" ELSE "yes"
      [] OTHER -> "no"

\* the "dependencies" / "devDependencies" steps: "raise" when .get is called on
\* a value that is not a mapping
DependencyStep(doc) ==
    LET d1 == IF doc.deps.k = "missing" THEN None ELSE doc.deps.v
        r1 == doc.deps.k \notin {"missing", "map"}
        useDev == ~Truthy(d1) /\ doc.dev.k # "missing"
        r2 == useDev /\ doc.dev.k # "map"
    IN [raised |-> r1 \/ r2, v |-> IF useDev THEN doc.dev.v ELSE d1]

extract_component_versions(doc) ==
    LET dep == DependencyStep(doc)
    IN IF dep.raised THEN Raised
       ELSE IF doc.pnpm.k = "missing" THEN Versions(dep.v, None, <<>>)
       ELSE LET h == HasOverrides(doc.pnpm)
            IN IF h = "raise" THEN Raised
               ELSE IF h = "no" THEN Versions(dep.v, None, <<>>)
               ELSE IF doc.pnpm.ov.k # "map" THEN Raised
               ELSE Versions(dep.v,
                             DictGet(doc.pnpm.ov.entries, DirectKey),
                             TransitiveOverrides(doc.pnpm.ov.entries))

\* priority: direct override > transitive override > dependency
effective_version(versions) ==
    LET e1 == versions.override
        e2 == IF ~Truthy(e1) /\ versions.transitive_overrides # <<>>
              THEN versions.transitive_overrides[1].version ELSE e1
    IN IF ~Truthy(e2) THEN versions.dependency ELSE e2

\* ComponentVersionTracker's copies of the two
extract_component_versions_single(doc) ==
    LET dep == DependencyStep(doc)
    IN IF dep.raised THEN Raised
       ELSE IF doc.pnpm.k = "missing" THEN Versions(dep.v, None, <<>>)
       ELSE LET h == HasOverrides(doc.pnpm)
            IN IF h = "raise" THEN Raised
               ELSE IF h = "no" THEN Versions(dep.v, None, <<>>)
               ELSE IF doc.pnpm.ov.k # "map" THEN Raised
               ELSE Versions(dep.v,
                             DictGet(doc.pnpm.ov.entries, DirectKey),
                             TransitiveOverrides(doc.pnpm.ov.entries))

effective_version_single(versions) ==
    LET e1 == versions.override
        e2 == IF ~Truthy(e1) /\ versions.transitive_overrides # <<>>
              THEN versions.transitive_overrides[1].version ELSE e1
    IN IF ~Truthy(e2) THEN versions.dependency ELSE e2

\* the `for key, value in overrides.items(): ... break` of get_version_at_commit
RECURSIVE FirstTransitive(_)
FirstTransitive(entries) ==
    IF entries = <<>> THEN None
    ELSE IF IsTransitiveKey(Head(entries).key) THEN Head(entries).value
    ELSE FirstTransitive(Tail(entries))

\* AdoptionAnalyzer.get_version_at_commit on a parsed document:
\* [raised, version].  Only CalledProcessError and JSONDecodeError are caught,
\* so an AttributeError or TypeError leaves the method.
get_version_at_commit(doc) ==
    LET r1 == doc.deps.k \notin {"missing", "map"}
        v1 == IF doc.deps.k = "map" THEN doc.deps.v ELSE None
        h == IF ~Truthy(v1) /\ doc.pnpm.k # "missing" THEN HasOverrides(doc.pnpm) ELSE "no"
    IN IF r1 \/ h = "raise" THEN [raised |-> TRUE, version |-> None]
       ELSE IF h = "no" THEN [raised |-> FALSE, version |-> v1]
       ELSE IF doc.pnpm.ov.k # "map" THEN [raised |-> TRUE, version |-> None]
       ELSE LET v2 == DictGet(doc.pnpm.ov.entries, DirectKey)
            IN [raised |-> FALSE,
                version |-> IF ~Truthy(v2)
                            THEN (IF \E i \in 1..Len(doc.pnpm.ov.entries) :
                                        IsTransitiveKey(doc.pnpm.ov.entries[i].key)
                                  THEN FirstTransitive(doc.pnpm.ov.entries)
                                  ELSE v2)
                            ELSE v2]

\* the trackers' initial locals: last_versions and changes
NoVersions == Versions(None, None, <<>>)

NoResult == [error |-> FALSE, changes |-> <<>>, current_version |-> None]

SkipIdle ==
    /\ s_releases = <<>>
    /\ s_version1 = <<>>
    /\ s_version2 = <<>>
    /\ s_result = 0
    /\ s_pc = "idle"

AdoptIdle ==
    /\ a_releases = <<>>
    /\ a_n = 0
    /\ a_docs = <<>>
    /\ a_last_version = None
    /\ a_adoptions = <<>>
    /\ a_repo_adoptions = [present |-> FALSE, adoptions |-> <<>>]
    /\ a_metrics = [present |-> FALSE]
    /\ a_dashboard = <<>>
    /\ a_pc = "idle"

TrackIdle ==
    /\ t_prog = "none"
    /\ t_n = 0
    /\ t_docs = <<>>
    /\ t_last_versions = NoVersions
    /\ t_changes = <<>>
    /\ t_pc = "idle"
    /\ t_result = NoResult

OrchIdle ==
    /\ o_repos = <<>>
    /\ o_parallel = FALSE
    /\ o_task = <<>>
    /\ o_runs = <<>>
    /\ o_repo_results = <<>>
    /\ o_patterns = [present |-> FALSE]
    /\ o_csv = <<>>
    /\ o_pc = "idle"

DashIdle ==
    /\ d_releases = <<>>
    /\ d_repo_adoptions = <<>>
    /\ d_metrics = <<>>
    /\ d_all = [present |-> FALSE]
    /\ d_csv = <<>>
    /\ d_report = [present |-> FALSE]
    /\ d_pc = "idle"

MainIdle ==
    /\ m_script = "none"
    /\ m_env = [present |-> FALSE]
    /\ m_exit = 0
    /\ m_pc = "idle"

TwiceIdle ==
    /\ w_kind = "none"
    /\ w_repo = [present |-> FALSE]
    /\ w_first = [present |-> FALSE]
    /\ w_second = [present |-> FALSE]
    /\ w_repo_adoptions = [present |-> FALSE, adoptions |-> <<>>]
    /\ w_pc = "idle"

UpdateIdle ==
    /\ u_env = [present |-> FALSE]
    /\ u_i = 0
    /\ u_cmds = <<>>
    /\ u_results = [success |-> <<>>, failed |-> <<>>, skipped |-> <<>>]
    /\ u_trace = <<>>
    /\ u_exit = 0
    /\ u_pc = "idle"

(***************************************************************************)
(* SpecResolve: the three resolvers applied to every manifest of a         *)
(* bounded family, malformed ones included.                                *)
(***************************************************************************)
OverrideKeys == {DirectKey, <<"pkgA", PKG>>, <<"pkgB", PKG>>, <<"pkgA", "other">>}

OverrideValues == {None, Str(<<>>), Str(v100), Str(c120)}

OverrideEntry == [key : OverrideKeys, value : OverrideValues]

\* the items of a mapping: at most MaxOverrides of them, no key twice
OverrideItems ==
    {es \in UNION {[1..n -> OverrideEntry] : n \in 0..MaxOverrides} :
        \A i, j \in 1..Len(es) : i # j => es[i].key # es[j].key}

DepFields == {Missing, NonMap("null"), NonMap("list")}
                \cup {Map(v) : v \in {None, Str(<<>>), Str(v100), Str(v120)}}

DevFields == {Missing, NonMap("null")} \cup {Map(v) : v \in {None, Str(v100), Str(v120)}}

OvFields == {OvMissing} \cup {OvNonMap(kd) : kd \in {"null", "list", "str", "num"}}
                \cup {OvMap(es) : es \in OverrideItems}

PnpmFields == {PnpmMissing} \cup {PnpmNonMap(kd) : kd \in {"null", "list", "str", "num"}}
                \cup {PnpmMap(ov) : ov \in OvFields}

ResolveDocs == {Doc(TRUE, d, dv, p) : d \in DepFields, dv \in DevFields, p \in PnpmFields}

NoOut ==
    [multi |-> Versions(None, None, <<>>), single |-> Versions(None, None, <<>>),
     analyzer |-> [raised |-> FALSE, version |-> None]]

ResolveIdle ==
    /\ r_doc = Doc(FALSE, Missing, Missing, PnpmMissing)
    /\ r_out = NoOut
    /\ r_pc = "idle"

ResolveInit ==
    /\ r_doc \in ResolveDocs
    /\ r_out = NoOut
    /\ r_pc = "input"
    /\ TrackIdle
    /\ AdoptIdle
    /\ SkipIdle
    /\ OrchIdle
    /\ DashIdle
    /\ MainIdle
    /\ TwiceIdle
    /\ UpdateIdle

\* each resolver is run on the document
Resolve ==
    /\ r_pc = "input"
    /\ r_out' = [multi |-> extract_component_versions(r_doc),
                 single |-> extract_component_versions_single(r_doc),
                 analyzer |-> get_version_at_commit(r_doc)]
    /\ r_pc' = "resolved"
    /\ UNCHANGED r_doc
    /\ UNCHANGED resolveOthers

ResolveNext == Resolve

SpecResolve == ResolveInit /\ [][ResolveNext]_vars

\* the document has only mappings where mappings are expected
WellFormed(doc) ==
    /\ doc.deps.k \in {"missing", "map"}
    /\ doc.dev.k \in {"missing", "map"}
    /\ doc.pnpm.k \in {"missing", "map"}
    /\ doc.pnpm.k = "map" => doc.pnpm.ov.k \in {"missing", "map"}

\* the items of pnpm.overrides (none when there is no such mapping)
OverridesOf(doc) ==
    IF doc.pnpm.k = "map" /\ doc.pnpm.ov.k = "map" THEN doc.pnpm.ov.entries ELSE <<>>

DirectOverrideOf(doc) == DictGet(OverridesOf(doc), DirectKey)

\* the effective version each resolver arrives at
EffMulti == effective_version(r_out.multi)

EffSingle == effective_version_single(r_out.single)

EffAnalyzer == r_out.analyzer.version

\* C1: whenever a direct pnpm override for the tracked package is present (a
\* non-empty version string), every resolver's effective version is that
\* override, whatever the dependencies and transitive overrides hold.
C1_DirectOverrideWins ==
    (r_pc = "resolved" /\ WellFormed(r_doc) /\ Truthy(DirectOverrideOf(r_doc)))
        => /\ EffMulti = DirectOverrideOf(r_doc)
           /\ EffSingle = DirectOverrideOf(r_doc)
           /\ EffAnalyzer = DirectOverrideOf(r_doc)

\* the part of C1 the two trackers do satisfy
C1_TrackersOnly ==
    (r_pc = "resolved" /\ WellFormed(r_doc) /\ Truthy(DirectOverrideOf(r_doc)))
        => /\ EffMulti = DirectOverrideOf(r_doc)
           /\ EffSingle = DirectOverrideOf(r_doc)

\* C2: with no direct override and at least one transitive override, the
\* effective version is the version of the first transitive key in insertion
\* order, whether or not a plain dependency is present.
C2_FirstTransitiveWins ==
    (/\ r_pc = "resolved" /\ WellFormed(r_doc)
     /\ DirectOverrideOf(r_doc) = None
     /\ TransitiveOverrides(OverridesOf(r_doc)) # <<>>
     /\ Truthy(TransitiveOverrides(OverridesOf(r_doc))[1].version))
        => /\ EffMulti = TransitiveOverrides(OverridesOf(r_doc))[1].version
           /\ EffAnalyzer = TransitiveOverrides(OverridesOf(r_doc))[1].version

\* the part of C2 the tracker does satisfy
C2_TrackerOnly ==
    (/\ r_pc = "resolved" /\ WellFormed(r_doc)
     /\ DirectOverrideOf(r_doc) = None
     /\ TransitiveOverrides(OverridesOf(r_doc)) # <<>>
     /\ Truthy(TransitiveOverrides(OverridesOf(r_doc))[1].version))
        => EffMulti = TransitiveOverrides(OverridesOf(r_doc))[1].version

\* C6: the resolvers never raise, also when "dependencies", "devDependencies",
\* "pnpm" or "pnpm.overrides" is present but is not a mapping.
C6_ResolverNeverRaises ==
    r_pc = "resolved" => ~r_out.multi.raised /\ ~r_out.analyzer.raised

\* on well-formed documents no resolver raises
C6_WellFormedNeverRaises ==
    (r_pc = "resolved" /\ WellFormed(r_doc))
        => ~r_out.multi.raised /\ ~r_out.single.raised /\ ~r_out.analyzer.raised

(***************************************************************************)
(* SpecTrack: the change detectors of MultiRepoVersionTracker              *)
(* (track_repo_version_changes) and ComponentVersionTracker                *)
(* (track_version_changes) walking the commits of one repository.          *)
(***************************************************************************)
\* what get_package_json_at_commit returns: None (git show failed or the text
\* is not JSON) or the parsed document
Unreadable == [readable |-> FALSE, doc |-> Doc(FALSE, Missing, Missing, PnpmMissing)]

Readable(doc) == [readable |-> TRUE, doc |-> doc]

\* `if not package_json: continue` skips None and the empty object {}
Skipped(c) ==
    \/ ~c.readable
    \/ /\ ~c.doc.other
       /\ c.doc.deps.k = "missing" /\ c.doc.dev.k = "missing" /\ c.doc.pnpm.k = "missing"

Overrides1(key, v) == PnpmMap(OvMap(<<[key |-> key, value |-> Str(v)]>>))

\* the manifests a commit of the walked repository may hold
TrackDocs ==
    { Unreadable,
      Readable(Doc(FALSE, Missing, Missing, PnpmMissing)),                 \* {}
      Readable(Doc(TRUE, Missing, Missing, PnpmMissing)),                  \* package absent
      Readable(Doc(TRUE, Map(Str(v100)), Missing, PnpmMissing)),
      Readable(Doc(TRUE, Map(Str(c120)), Missing, PnpmMissing)),
      Readable(Doc(TRUE, Map(Str(v120)), Missing, PnpmMissing)),
      Readable(Doc(TRUE, Map(Str(v100)), Missing, Overrides1(DirectKey, v120))),
      Readable(Doc(TRUE, Map(Str(v100)), Missing, Overrides1(<<"pkgA", PKG>>, c120))),
      Readable(Doc(TRUE, NonMap("null"), Missing, PnpmMissing)) }          \* "dependencies": null

\* a detector that takes the previous dependency entry for the previous effective version
last_effective_dependency_only(last_versions) == last_versions.dependency

\* the `last_effective` computed from last_versions in each iteration
last_effective(last_versions) ==
    LET e1 == last_versions.override
        e2 == IF ~Truthy(e1) /\ last_versions.transitive_overrides # <<>>
              THEN last_versions.transitive_overrides[1].version ELSE e1
    IN IF ~Truthy(e2) THEN last_versions.dependency ELSE e2

\* `changed`: some constituent differs from last_versions
changed(versions, last_versions) ==
    \/ versions.dependency # last_versions.dependency
    \/ versions.override # last_versions.override
    \/ versions.transitive_overrides # last_versions.transitive_overrides

\* a detector that records every constituent change
ShouldEmitWhenChanged(versions, last_versions) == changed(versions, last_versions)

\* `if changed and (effective_version != last_effective)`
ShouldEmit(versions, last_versions) ==
    /\ changed(versions, last_versions)
    /\ effective_version(versions) # last_effective(last_versions)

change_record(commit, versions, last_versions) ==
    [commit |-> commit,
     dependency_version |-> versions.dependency,
     override_version |-> versions.override,
     effective_version |-> effective_version(versions),
     previous_effective |-> last_effective(last_versions)]

TrackInit ==
    /\ t_prog \in {"multi", "single"}
    /\ t_n = 0
    /\ t_docs = <<>>
    /\ t_last_versions = NoVersions
    /\ t_changes = <<>>
    /\ t_pc = "start"
    /\ t_result = NoResult
    /\ ResolveIdle
    /\ AdoptIdle
    /\ SkipIdle
    /\ OrchIdle
    /\ DashIdle
    /\ MainIdle
    /\ TwiceIdle
    /\ UpdateIdle

\* `git log ... -- package.json`: it fails (CalledProcessError, which only the
\* multi-repository tracker catches) or returns t_n commit hashes
GitLog ==
    /\ t_pc = "start"
    /\ \E ok \in BOOLEAN, n \in 0..MaxCommits :
        IF ok
        THEN /\ t_n' = n
             /\ t_pc' = "loop"
             /\ UNCHANGED t_result
        ELSE /\ t_n' = 0
             /\ t_pc' = IF t_prog = "multi" THEN "error" ELSE "raised"
             /\ t_result' = [error |-> t_prog = "multi", changes |-> <<>>,
                             current_version |-> None]
    /\ UNCHANGED <<t_prog, t_docs, t_last_versions, t_changes>>
    /\ UNCHANGED trackOthers

\* one iteration of `for commit_hash in commits` of track_repo_version_changes;
\* info_ok: whether get_commit_info's `git show -s` succeeds
TrackRepoCommit(c, info_ok) ==
    /\ t_prog = "multi"
    /\ t_pc = "loop"
    /\ Len(t_docs) < t_n
    /\ t_docs' = Append(t_docs, c)
    /\ IF Skipped(c)
       THEN UNCHANGED <<t_last_versions, t_changes, t_pc, t_result>>
       ELSE LET versions == extract_component_versions(c.doc)
            IN IF versions.raised
               THEN /\ t_pc' = "raised"
                    /\ UNCHANGED <<t_last_versions, t_changes, t_result>>
               ELSE IF ShouldEmit(versions, t_last_versions) /\ ~info_ok
               THEN \* CalledProcessError, caught by the method's except
                    /\ t_pc' = "error"
                    /\ t_result' = [error |-> TRUE, changes |-> <<>>,
                                    current_version |-> None]
                    /\ UNCHANGED <<t_last_versions, t_changes>>
               ELSE /\ t_changes' =
                          IF ShouldEmit(versions, t_last_versions)
                          THEN Append(t_changes,
                                      change_record(Len(t_docs) + 1, versions, t_last_versions))
                          ELSE t_changes
                    /\ t_last_versions' = versions
                    /\ UNCHANGED <<t_pc, t_result>>
    /\ UNCHANGED <<t_prog, t_n>>
    /\ UNCHANGED trackOthers

\* the tracker of one repository: its own copies of the conditions
last_effective_single(last_versions) ==
    LET e1 == last_versions.override
        e2 == IF ~Truthy(e1) /\ last_versions.transitive_overrides # <<>>
              THEN last_versions.transitive_overrides[1].version ELSE e1
    IN IF ~Truthy(e2) THEN last_versions.dependency ELSE e2

ShouldEmitSingle(versions, last_versions) ==
    /\ changed(versions, last_versions)
    /\ effective_version_single(versions) # last_effective_single(last_versions)

change_record_single(commit, versions, last_versions) ==
    [commit |-> commit,
     dependency_version |-> versions.dependency,
     override_version |-> versions.override,
     effective_version |-> effective_version_single(versions),
     previous_effective |-> last_effective_single(last_versions)]

\* one iteration of the loop of track_version_changes: get_commit_info is
\* called for every commit that is not skipped, and nothing catches its failure
TrackCommit(c, info_ok) ==
    /\ t_prog = "single"
    /\ t_pc = "loop"
    /\ Len(t_docs) < t_n
    /\ t_docs' = Append(t_docs, c)
    /\ IF Skipped(c)
       THEN UNCHANGED <<t_last_versions, t_changes, t_pc>>
       ELSE LET versions == extract_component_versions_single(c.doc)
            IN IF versions.raised \/ ~info_ok
               THEN /\ t_pc' = "raised"
                    /\ UNCHANGED <<t_last_versions, t_changes>>
               ELSE /\ t_changes' =
                          IF ShouldEmitSingle(versions, t_last_versions)
                          THEN Append(t_changes,
                                      change_record_single(Len(t_docs) + 1, versions,
                                                           t_last_versions))
                          ELSE t_changes
                    /\ t_last_versions' = versions
                    /\ UNCHANGED t_pc
    /\ UNCHANGED <<t_prog, t_n, t_result>>
    /\ UNCHANGED trackOthers

\* the working copy's package.json when the multi-repository tracker reads the
\* current version: no file, a file that is not JSON, or a document
CurrentFiles ==
    { [exists |-> FALSE, json |-> TRUE, doc |-> Doc(FALSE, Missing, Missing, PnpmMissing)],
      [exists |-> TRUE, json |-> FALSE, doc |-> Doc(FALSE, Missing, Missing, PnpmMissing)],
      [exists |-> TRUE, json |-> TRUE, doc |-> Doc(TRUE, Missing, Missing, PnpmMissing)],
      [exists |-> TRUE, json |-> TRUE, doc |-> Doc(TRUE, Map(Str(c120)), Missing, PnpmMissing)],
      [exists |-> TRUE, json |-> TRUE, doc |-> Doc(TRUE, NonMap("null"), Missing, PnpmMissing)] }

\* after the loop: "Get current version" and the return.  json.load's
\* JSONDecodeError and the resolver's exceptions are not CalledProcessError
TrackRepoReturn(cur) ==
    /\ t_prog = "multi"
    /\ t_pc = "loop"
    /\ Len(t_docs) = t_n
    /\ IF ~cur.exists
       THEN /\ t_pc' = "done"
            /\ t_result' = [error |-> FALSE, changes |-> t_changes, current_version |-> None]
       ELSE IF ~cur.json \/ extract_component_versions(cur.doc).raised
       THEN /\ t_pc' = "raised"
            /\ UNCHANGED t_result
       ELSE /\ t_pc' = "done"
            /\ t_result' = [error |-> FALSE, changes |-> t_changes,
                            current_version |->
                                effective_version(extract_component_versions(cur.doc))]
    /\ UNCHANGED <<t_prog, t_n, t_docs, t_last_versions, t_changes>>
    /\ UNCHANGED trackOthers

\* `return changes`
TrackReturn ==
    /\ t_prog = "single"
    /\ t_pc = "loop"
    /\ Len(t_docs) = t_n
    /\ t_pc' = "done"
    /\ t_result' = [error |-> FALSE, changes |-> t_changes, current_version |-> None]
    /\ UNCHANGED <<t_prog, t_n, t_docs, t_last_versions, t_changes>>
    /\ UNCHANGED trackOthers

TrackNext ==
    \/ GitLog
    \/ \E c \in TrackDocs, ok \in BOOLEAN : TrackRepoCommit(c, ok)
    \/ \E c \in TrackDocs, ok \in BOOLEAN : TrackCommit(c, ok)
    \/ \E cur \in CurrentFiles : TrackRepoReturn(cur)
    \/ TrackReturn

SpecTrack == TrackInit /\ [][TrackNext]_vars

\* ---- the walk seen from outside: what each commit resolves to ----
ResolveAt(k) ==
    IF t_prog = "single" THEN extract_component_versions_single(t_docs[k].doc)
    ELSE extract_component_versions(t_docs[k].doc)

\* the effective version at commit k (0: before the first commit)
EffAt(k) ==
    IF k = 0 THEN None
    ELSE IF t_prog = "single" THEN effective_version_single(ResolveAt(k))
    ELSE effective_version(ResolveAt(k))

Processed == {k \in 1..Len(t_docs) : ~Skipped(t_docs[k])}

\* the processed commit before k (0 when there is none)
PrevProcessed(k) ==
    IF \E j \in Processed : j < k
    THEN CHOOSE j \in Processed : j < k /\ \A m \in Processed : m < k => m <= j
    ELSE 0

RecordCommits == {t_changes[r].commit : r \in 1..Len(t_changes)}

\* commit k changed a constituent and left the effective version as it was
CancelsOut(k) ==
    /\ k \in Processed
    /\ PrevProcessed(k) # 0
    /\ changed(ResolveAt(k), ResolveAt(PrevProcessed(k)))
    /\ EffAt(k) = EffAt(PrevProcessed(k))

\* C3: every change record's previous_effective is the effective_version of
\* the record emitted before it for the repository, and the first record's is
\* absent, after any sequence of commits (skipped ones included).
C3_PreviousIsPriorEffective ==
    /\ \A r \in 1..Len(t_changes) :
          t_changes[r].previous_effective =
              IF r = 1 THEN None ELSE t_changes[r - 1].effective_version
    /\ \A r \in 1..Len(t_result.changes) :
          t_result.changes[r].previous_effective =
              IF r = 1 THEN None ELSE t_result.changes[r - 1].effective_version

\* C3's case: a finished walk with two records, a skipped commit and a
\* commit that changed constituents only, both between the two records
C3_Witness ==
    /\ t_pc = "done"
    /\ Len(t_result.changes) >= 2
    /\ \E j \in 1..Len(t_docs) :
          /\ Skipped(t_docs[j])
          /\ t_changes[1].commit < j /\ j < t_changes[2].commit
    /\ \E m \in 1..Len(t_docs) :
          /\ CancelsOut(m)
          /\ t_changes[1].commit < m /\ m < t_changes[2].commit

\* C4: a change record is emitted at a commit exactly when the effective
\* version resolved there differs from the one resolved at the previous
\* processed commit; a constituent change that cancels out emits none.
C4_RecordIffEffectiveDiffers ==
    t_pc \in {"loop", "done"} =>
        /\ RecordCommits = {k \in Processed : EffAt(k) # EffAt(PrevProcessed(k))}
        /\ \A r \in 1..Len(t_changes) :
              /\ t_changes[r].effective_version = EffAt(t_changes[r].commit)
              /\ r > 1 => t_changes[r - 1].commit < t_changes[r].commit
        /\ t_pc = "done" => t_result.changes = t_changes

\* C4's case: the override is removed while the dependency is set to the same
\* value, between two commits that do emit
C4_Witness ==
    /\ t_pc = "done"
    /\ Len(t_changes) >= 1
    /\ \E k \in Processed :
          /\ CancelsOut(k)
          /\ k \notin RecordCommits
          /\ Truthy(ResolveAt(PrevProcessed(k)).override)
          /\ ~Truthy(ResolveAt(k).override)
          /\ ResolveAt(k).dependency = ResolveAt(PrevProcessed(k)).override

\* the tracker's records, read with C5's rule: no record whose versions
\* differ only in their range prefix
TrackerComparesStripped ==
    \A r \in 1..Len(t_changes) :
        (Truthy(t_changes[r].effective_version) /\ Truthy(t_changes[r].previous_effective))
            => lstrip(t_changes[r].effective_version.s, RangePrefix)
                   # lstrip(t_changes[r].previous_effective.s, RangePrefix)

\* C17: after every commit whose manifest was retrieved, last_versions holds
\* the values resolved at that commit (record or no record, version absent or
\* not, the empty object {} included); so "A, package absent, A" gives a
\* record for the second A.
C17_BaselineFollowsEveryRetrievedManifest ==
    (t_pc \in {"loop", "done"} /\ t_docs # <<>> /\ t_docs[Len(t_docs)].readable)
        => t_last_versions = ResolveAt(Len(t_docs))

\* what the code does for C17: the baseline follows every commit that is not
\* skipped, and {} is skipped like an unreadable manifest
C17_BaselineFollowsProcessed ==
    t_pc \in {"loop", "done"} =>
        t_last_versions = IF Processed = {} THEN NoVersions
                          ELSE ResolveAt(PrevProcessed(Len(t_docs) + 1))

\* "A, package absent, A" with a manifest that still has other keys: the
\* second A is recorded
C17_ReadoptionRecorded ==
    /\ t_pc = "done"
    /\ Len(t_docs) = 3
    /\ Processed = {1, 2, 3}
    /\ Truthy(EffAt(1)) /\ EffAt(2) = None /\ EffAt(3) = EffAt(1)
    /\ RecordCommits = {1, 2, 3}

\* C18: a failure at one commit (manifest not retrieved or not parsed, commit
\* metadata not fetched) leaves the records of the other commits in the
\* value returned for the repository.
C18_PerCommitFailureKeepsOthers ==
    (t_pc \in {"done", "error"} /\ t_docs # <<>>) => t_result.changes = t_changes

\* what the code does for C18: an unreadable manifest costs its own commit
\* only, a failing get_commit_info costs the repository all its records
C18_AsImplemented ==
    /\ (t_pc = "done" /\ t_prog = "multi") =>
          /\ t_result.changes = t_changes
          /\ ~t_result.error
          /\ \A k \in 1..Len(t_docs) : ~t_docs[k].readable => k \notin RecordCommits
    /\ t_pc = "error" => (t_result.error /\ t_result.changes = <<>>)

(***************************************************************************)
(* AdoptionAnalyzer: the release table, count_versions_between, the        *)
(* adoption walk (get_repo_adoptions) and calculate_adoption_metrics.      *)
(***************************************************************************)
\* AdoptionAnalyzer.parse_version: the first three '.'-separated parts as
\* integers, (0, 0, 0) when one of them is no integer
parse_version(version) ==
    LET parts == split(version, ".")
        first == SubSeq(parts, 1, IF Len(parts) < 3 THEN Len(parts) ELSE 3)
    IN IF \A i \in 1..Len(first) : IntOk(first[i])
       THEN [i \in 1..Len(first) |-> DecimalValue(first[i])]
       ELSE <<0, 0, 0>>

\* list.index: the first position of x, 0 for ValueError
IndexOf(seq, x) ==
    IF \E i \in 1..Len(seq) : seq[i] = x
    THEN CHOOSE i \in 1..Len(seq) : seq[i] = x /\ \A j \in 1..(i - 1) : seq[j] # x
    ELSE 0

\* self.releases is a dict: [version, date] items in insertion order
ReleaseKeys(releases) == [i \in 1..Len(releases) |-> releases[i].version]

InReleases(releases, version) == \E i \in 1..Len(releases) : releases[i].version = version

ReleaseDate(releases, version) ==
    releases[CHOOSE i \in 1..Len(releases) : releases[i].version = version].date

\* load_releases: each entry of the file is stored under its version with
\* leading '^' and '~' removed; a repeated key keeps its place, takes the new value
RECURSIVE load_releases(_, _)
load_releases(releases, file) ==
    IF file = <<>> THEN releases
    ELSE LET clean == lstrip(Head(file).version, RangePrefix)
             item == [version |-> clean, date |-> Head(file).date]
             at == IndexOf(ReleaseKeys(releases), clean)
         IN load_releases(IF at = 0 THEN Append(releases, item)
                          ELSE [releases EXCEPT ![at] = item],
                          Tail(file))

\* sorted(keys, key=parse_version): a stable sort
RECURSIVE InsertByKey(_, _)
InsertByKey(sorted, x) ==
    IF sorted = <<>> THEN <<x>>
    ELSE IF TupleLess(parse_version(x), parse_version(Head(sorted)))
    THEN <<x>> \o sorted
    ELSE <<Head(sorted)>> \o InsertByKey(Tail(sorted), x)

RECURSIVE SortByKey(_)
SortByKey(keys) ==
    IF keys = <<>> THEN <<>>
    ELSE InsertByKey(SortByKey(SubSeq(keys, 1, Len(keys) - 1)), keys[Len(keys)])

\* a table whose versions are left in insertion order
all_versions_unsorted(releases) == ReleaseKeys(releases)

\* `all_versions = sorted(self.releases.keys(), key=...)`
all_versions(releases) == SortByKey(ReleaseKeys(releases))

Abs(x) == IF x < 0 THEN -x ELSE x

count_versions_between(releases, version1, version2) ==
    LET idx1 == IndexOf(all_versions(releases), version1)
        idx2 == IndexOf(all_versions(releases), version2)
    IN IF idx1 = 0 \/ idx2 = 0 THEN 0 ELSE Abs(idx2 - idx1) - 1

(***************************************************************************)
(* SpecSkip: count_versions_between on every release table of a bounded    *)
(* family, in every insertion order.                                       *)
(***************************************************************************)
SkipVersions == {v100, v120, v1100, v200, v999}

\* the release tables: up to MaxReleases versions, none twice, any order
SkipTables ==
    {t \in UNION {[1..n -> [version : SkipVersions, date : {0}]] : n \in 0..MaxReleases} :
        \A i, j \in 1..Len(t) : i # j => t[i].version # t[j].version}

SkipInit ==
    /\ s_releases \in SkipTables
    /\ s_version1 \in SkipVersions
    /\ s_version2 \in SkipVersions
    /\ s_result = 0
    /\ s_pc = "input"
    /\ ResolveIdle
    /\ TrackIdle
    /\ AdoptIdle
    /\ OrchIdle
    /\ DashIdle
    /\ MainIdle
    /\ TwiceIdle
    /\ UpdateIdle

CountVersionsBetween ==
    /\ s_pc = "input"
    /\ s_result' = count_versions_between(s_releases, s_version1, s_version2)
    /\ s_pc' = "counted"
    /\ UNCHANGED <<s_releases, s_version1, s_version2>>
    /\ UNCHANGED skipOthers

SkipNext == CountVersionsBetween

SpecSkip == SkipInit /\ [][SkipNext]_vars

\* the (major, minor, patch) triple each version of SkipVersions denotes
SemVerOf(v) ==
    CASE v = v100 -> <<1, 0, 0>>
      [] v = v120 -> <<1, 2, 0>>
      [] v = v1100 -> <<1, 10, 0>>
      [] v = v200 -> <<2, 0, 0>>
      [] v = v999 -> <<9, 9, 9>>

TripleBefore(a, b) ==
    \/ a[1] < b[1]
    \/ a[1] = b[1] /\ a[2] < b[2]
    \/ a[1] = b[1] /\ a[2] = b[2] /\ a[3] < b[3]

\* the releases whose triple lies strictly between those of v1 and v2
StrictlyBetween(releases, v1, v2) ==
    {i \in 1..Len(releases) :
        LET t == SemVerOf(releases[i].version)
        IN \/ TripleBefore(SemVerOf(v1), t) /\ TripleBefore(t, SemVerOf(v2))
           \/ TripleBefore(SemVerOf(v2), t) /\ TripleBefore(t, SemVerOf(v1))}

\* C8: for two versions of the release table, count_versions_between returns
\* the number of releases strictly between them in the order of the numeric
\* (major, minor, patch) triples, whichever of the two is the greater; this is
\* |index(v2) - index(v1)| - 1, which is -1 when the two are the same version.
C8_CountsReleasesBetween ==
    (/\ s_pc = "counted"
     /\ InReleases(s_releases, s_version1)
     /\ InReleases(s_releases, s_version2))
        => /\ s_version1 # s_version2 =>
                s_result = Cardinality(StrictlyBetween(s_releases, s_version1, s_version2))
           /\ s_version1 = s_version2 => s_result = -1
           /\ s_result = count_versions_between(s_releases, s_version2, s_version1)

\* C8's case: four releases inserted out of numeric order, 1.0.0 to 2.0.0
\* skips the two between them
C8_Witness ==
    /\ s_pc = "counted"
    /\ Len(s_releases) = 4
    /\ s_version1 = v100 /\ s_version2 = v200
    /\ IndexOf(ReleaseKeys(s_releases), v1100) = 1
    /\ IndexOf(ReleaseKeys(s_releases), v200) = 2
    /\ IndexOf(ReleaseKeys(s_releases), v120) = 3
    /\ IndexOf(ReleaseKeys(s_releases), v100) = 4
    /\ s_result = 2

(***************************************************************************)
(* SpecAdopt: get_repo_adoptions walking the commits of one repository,    *)
(* then calculate_adoption_metrics and the dashboard's per-adoption lag.   *)
(***************************************************************************)
\* the release files load_releases may read: [version, release_date] entries
\* in the order of the file (newest first, as export_to_json writes them)
ReleaseFiles ==
    { <<[version |-> v1100, date |-> 5], [version |-> v120, date |-> 2],
        [version |-> v100, date |-> 0]>>,
      <<[version |-> v120, date |-> 2]>> }

\* the manifests a commit may hold for the adoption walk
AdoptDocs ==
    { Unreadable,
      Readable(Doc(TRUE, Missing, Missing, PnpmMissing)),                  \* package absent
      Readable(Doc(TRUE, Map(Str(v100)), Missing, PnpmMissing)),
      Readable(Doc(TRUE, Map(Str(c120)), Missing, PnpmMissing)),
      Readable(Doc(TRUE, Map(Str(v120)), Missing, PnpmMissing)),
      Readable(Doc(TRUE, Missing, Missing, Overrides1(DirectKey, v1100))),
      Readable(Doc(TRUE, Map(Str(v999)), Missing, PnpmMissing)),           \* no such release
      Readable(Doc(TRUE, NonMap("null"), Missing, PnpmMissing)) }          \* "dependencies": null

\* ticks between the author dates of consecutive commits: half a day, 14 days
CommitGaps == {1, 28}

\* get_version_at_commit, git show and json.loads included: their
\* CalledProcessError and JSONDecodeError give None
version_at_commit(c) ==
    IF ~c.readable THEN [raised |-> FALSE, version |-> None]
    ELSE get_version_at_commit(c.doc)

\* `if version and version != last_version`
\* a test that takes every commit at which the package is there
IsAnyVersion(version, last_version) == Truthy(version)

IsNewVersion(version, last_version) == Truthy(version) /\ version # last_version

adoption(commit, version, date) ==
    [version |-> lstrip(version.s, RangePrefix),
     raw_version |-> version.s,
     adoption_date |-> date,
     commit |-> commit]

AdoptInit ==
    /\ a_releases \in {load_releases(<<>>, f) : f \in ReleaseFiles}
    /\ a_n = 0
    /\ a_docs = <<>>
    /\ a_last_version = None
    /\ a_adoptions = <<>>
    /\ a_repo_adoptions = [present |-> FALSE, adoptions |-> <<>>]
    /\ a_metrics = [present |-> FALSE]
    /\ a_dashboard = <<>>
    /\ a_pc = "start"
    /\ ResolveIdle
    /\ TrackIdle
    /\ SkipIdle
    /\ OrchIdle
    /\ DashIdle
    /\ MainIdle
    /\ TwiceIdle
    /\ UpdateIdle

\* main: `existing_repos = [repo for repo in repos if repo.exists()]`, a
\* repository that is not there is never given to get_repo_adoptions
AdoptSkipMissing ==
    /\ a_pc = "start"
    /\ a_pc' = "missing"
    /\ UNCHANGED <<a_releases, a_n, a_docs, a_last_version, a_adoptions, a_repo_adoptions,
                   a_metrics, a_dashboard>>
    /\ UNCHANGED adoptOthers

\* `git log --format=%H|%ai --reverse ... -- package.json`: on failure
\* get_repo_adoptions returns [] and leaves repo_adoptions without the entry
AdoptGitLog ==
    /\ a_pc = "start"
    /\ \E ok \in BOOLEAN, n \in 0..MaxAdoptCommits :
        /\ a_n' = IF ok THEN n ELSE 0
        /\ a_pc' = IF ok THEN "loop" ELSE "failed"
    /\ UNCHANGED <<a_releases, a_docs, a_last_version, a_adoptions, a_repo_adoptions,
                   a_metrics, a_dashboard>>
    /\ UNCHANGED adoptOthers

LastDate == IF a_docs = <<>> THEN 0 ELSE a_docs[Len(a_docs)].date

\* one iteration of `for commit_line in commits`
AdoptCommit(c, gap) ==
    /\ a_pc = "loop"
    /\ Len(a_docs) < a_n
    /\ LET date == LastDate + gap
           got == version_at_commit(c)
       IN /\ a_docs' = Append(a_docs, [readable |-> c.readable, doc |-> c.doc, date |-> date])
          /\ IF got.raised
             THEN /\ a_pc' = "raised"
                  /\ UNCHANGED <<a_last_version, a_adoptions>>
             ELSE IF IsNewVersion(got.version, a_last_version)
             THEN /\ a_adoptions' = Append(a_adoptions,
                                           adoption(Len(a_docs) + 1, got.version, date))
                  /\ a_last_version' = got.version
                  /\ UNCHANGED a_pc
             ELSE UNCHANGED <<a_last_version, a_adoptions, a_pc>>
    /\ UNCHANGED <<a_releases, a_n, a_repo_adoptions, a_metrics, a_dashboard>>
    /\ UNCHANGED adoptOthers

\* `self.repo_adoptions[repo_name] = adoptions; return adoptions`
AdoptReturn ==
    /\ a_pc = "loop"
    /\ Len(a_docs) = a_n
    /\ a_repo_adoptions' = [present |-> TRUE, adoptions |-> a_adoptions]
    /\ a_pc' = "walked"
    /\ UNCHANGED <<a_releases, a_n, a_docs, a_last_version, a_adoptions, a_metrics,
                   a_dashboard>>
    /\ UNCHANGED adoptOthers

\* ---- statistics: exact fractions [present, num, den]; absent = key not set ----
Absent == [present |-> FALSE, num |-> 0, den |-> 1]

Fraction(n, d) == [present |-> TRUE, num |-> n, den |-> d]

RECURSIVE Sum(_)
Sum(seq) == IF seq = <<>> THEN 0 ELSE Head(seq) + Sum(Tail(seq))

\* statistics.mean
mean(seq) == Fraction(Sum(seq), Len(seq))

RECURSIVE InsertInt(_, _)
InsertInt(sorted, x) ==
    IF sorted = <<>> THEN <<x>>
    ELSE IF x < Head(sorted) THEN <<x>> \o sorted
    ELSE <<Head(sorted)>> \o InsertInt(Tail(sorted), x)

RECURSIVE SortInts(_)
SortInts(seq) == IF seq = <<>> THEN <<>> ELSE InsertInt(SortInts(Tail(seq)), Head(seq))

\* statistics.median: the middle value, the mean of the two middle values
median(seq) ==
    LET sorted == SortInts(seq)
        n == Len(seq)
    IN IF n % 2 = 1 THEN Fraction(sorted[(n + 1) \div 2], 1)
       ELSE Fraction(sorted[n \div 2] + sorted[n \div 2 + 1], 2)

MinOf(seq) == CHOOSE x \in {seq[i] : i \in 1..Len(seq)} : \A i \in 1..Len(seq) : x <= seq[i]

MaxOf(seq) == CHOOSE x \in {seq[i] : i \in 1..Len(seq)} : \A i \in 1..Len(seq) : x >= seq[i]

\* a lag measured from the adoption back to nothing: release minus adoption
lag_days_reversed(adoption_date, release_date) == Days(release_date - adoption_date)

\* `lag_days = (adoption_date - release_date).days`
lag_days(adoption_date, release_date) == Days(adoption_date - release_date)

\* `update_interval = (adoption_date - prev_date).days`
update_interval(adoption_date, prev_date) == Days(adoption_date - prev_date)

\* the version_info built for adoptions[i] (built only when its version is a
\* key of the release table); has_previous: the keys 'versions_skipped' and
\* 'days_since_last_update' are set, which is so for i > 0 (here i > 1)
version_info(adoptions, releases, i) ==
    LET a == adoptions[i]
    IN [version |-> a.version,
        release_date |-> ReleaseDate(releases, a.version),
        adoption_date |-> a.adoption_date,
        lag_days |-> lag_days(a.adoption_date, ReleaseDate(releases, a.version)),
        commit |-> a.commit,
        has_previous |-> i > 1,
        versions_skipped |->
            IF i > 1 THEN count_versions_between(releases, adoptions[i - 1].version, a.version)
            ELSE 0,
        days_since_last_update |->
            IF i > 1 THEN update_interval(a.adoption_date, adoptions[i - 1].adoption_date)
            ELSE 0]

\* repo_metrics['versions'] after the first n adoptions
RECURSIVE versions_list(_, _, _)
versions_list(adoptions, releases, n) ==
    IF n = 0 THEN <<>>
    ELSE versions_list(adoptions, releases, n - 1)
            \o (IF InReleases(releases, adoptions[n].version)
                THEN <<version_info(adoptions, releases, n)>>
                ELSE <<>>)

HasPrevious(vi) == vi.has_previous

\* an aggregation that fills the statistics of an empty list with 0
calculate_adoption_metrics_zero_filled(adoptions, releases) ==
    LET versions == versions_list(adoptions, releases, Len(adoptions))
        adoption_lags == [j \in 1..Len(versions) |-> versions[j].lag_days]
        later == SelectSeq(versions, HasPrevious)
        skip_counts == [j \in 1..Len(later) |-> later[j].versions_skipped]
        update_intervals == [j \in 1..Len(later) |-> later[j].days_since_last_update]
        avg(seq) == IF seq = <<>> THEN Fraction(0, 1) ELSE mean(seq)
    IN [present |-> TRUE,
        total_updates |-> Len(adoptions),
        versions |-> versions,
        adoption_lags |-> adoption_lags,
        skip_counts |-> skip_counts,
        update_intervals |-> update_intervals,
        avg_lag_days |-> avg(adoption_lags),
        median_lag_days |-> IF adoption_lags = <<>> THEN Fraction(0, 1) ELSE median(adoption_lags),
        min_lag_days |-> Fraction(IF adoption_lags = <<>> THEN 0 ELSE MinOf(adoption_lags), 1),
        max_lag_days |-> Fraction(IF adoption_lags = <<>> THEN 0 ELSE MaxOf(adoption_lags), 1),
        avg_versions_skipped |-> avg(skip_counts),
        avg_update_interval |-> avg(update_intervals)]

\* one repository's entry of calculate_adoption_metrics
calculate_adoption_metrics(adoptions, releases) ==
    LET versions == versions_list(adoptions, releases, Len(adoptions))
        adoption_lags == [j \in 1..Len(versions) |-> versions[j].lag_days]
        later == SelectSeq(versions, HasPrevious)
        skip_counts == [j \in 1..Len(later) |-> later[j].versions_skipped]
        update_intervals == [j \in 1..Len(later) |-> later[j].days_since_last_update]
        lagged == adoption_lags # <<>>
    IN [present |-> TRUE,
        total_updates |-> Len(adoptions),
        versions |-> versions,
        adoption_lags |-> adoption_lags,
        skip_counts |-> skip_counts,
        update_intervals |-> update_intervals,
        avg_lag_days |-> IF lagged THEN mean(adoption_lags) ELSE Absent,
        median_lag_days |-> IF lagged THEN median(adoption_lags) ELSE Absent,
        min_lag_days |-> IF lagged THEN Fraction(MinOf(adoption_lags), 1) ELSE Absent,
        max_lag_days |-> IF lagged THEN Fraction(MaxOf(adoption_lags), 1) ELSE Absent,
        avg_versions_skipped |-> IF skip_counts # <<>> THEN mean(skip_counts) ELSE Absent,
        avg_update_interval |->
            IF update_intervals # <<>> THEN mean(update_intervals) ELSE Absent]

\* the 'lag_days' generate_dashboard_data_json writes for one adoption:
\* a number for a known release, None otherwise
dashboard_lag(a, releases) ==
    IF InReleases(releases, a.version)
    THEN [present |-> TRUE,
          days |-> Days(a.adoption_date - ReleaseDate(releases, a.version))]
    ELSE [present |-> FALSE, days |-> 0]

\* metrics = analyzer.calculate_adoption_metrics(): an entry for every key of
\* repo_adoptions
CalculateMetrics ==
    /\ a_pc \in {"walked", "failed", "missing"}
    /\ a_metrics' = IF a_repo_adoptions.present
                    THEN calculate_adoption_metrics(a_repo_adoptions.adoptions, a_releases)
                    ELSE [present |-> FALSE]
    /\ a_pc' = "calculated"
    /\ UNCHANGED <<a_releases, a_n, a_docs, a_last_version, a_adoptions, a_repo_adoptions,
                   a_dashboard>>
    /\ UNCHANGED adoptOthers

\* analyzer.generate_dashboard_data_json(metrics): the 'repo_adoptions' part
GenerateDashboardData ==
    /\ a_pc = "calculated"
    /\ a_dashboard' =
          [j \in 1..Len(a_repo_adoptions.adoptions) |->
              [version |-> a_repo_adoptions.adoptions[j].version,
               raw_version |-> a_repo_adoptions.adoptions[j].raw_version,
               adoption_date |-> a_repo_adoptions.adoptions[j].adoption_date \div TicksPerDay,
               commit |-> a_repo_adoptions.adoptions[j].commit,
               lag_days |-> dashboard_lag(a_repo_adoptions.adoptions[j], a_releases)]]
    /\ a_pc' = "done"
    /\ UNCHANGED <<a_releases, a_n, a_docs, a_last_version, a_adoptions, a_repo_adoptions,
                   a_metrics>>
    /\ UNCHANGED adoptOthers

AdoptNext ==
    \/ AdoptSkipMissing
    \/ AdoptGitLog
    \/ \E c \in AdoptDocs, gap \in CommitGaps : AdoptCommit(c, gap)
    \/ AdoptReturn
    \/ CalculateMetrics
    \/ GenerateDashboardData

SpecAdopt == AdoptInit /\ [][AdoptNext]_vars

\* ---- the adoption walk and the metrics seen from outside ----
\* the version get_version_at_commit gives at commit k
VersionAt(k) == version_at_commit(a_docs[k]).version

AdoptionCommits == {a_adoptions[j].commit : j \in 1..Len(a_adoptions)}

\* the adoptions the metrics were computed from
Adoptions == a_repo_adoptions.adoptions

Known(j) == InReleases(a_releases, Adoptions[j].version)

KnownAdoptions == {j \in 1..Len(Adoptions) : Known(j)}

\* the entries of metrics['versions'] built for adoption j
InfosOf(j) ==
    {i \in 1..Len(a_metrics.versions) : a_metrics.versions[i].commit = Adoptions[j].commit}

\* d is the whole number of days in `ticks`: the floor
IsWholeDays(d, ticks) == d * TicksPerDay <= ticks /\ ticks < (d + 1) * TicksPerDay

\* C5: versions are compared with leading '^' and '~' removed: two consecutive
\* commits whose versions differ only in the range prefix give no new
\* adoption; every stored version has no leading '^' or '~' and the raw value
\* is kept beside it.
C5_ComparedAfterStripping ==
    /\ \A k \in 2..Len(a_docs) :
          (/\ a_pc \in {"loop", "walked", "calculated", "done"}
           /\ Truthy(VersionAt(k - 1)) /\ Truthy(VersionAt(k))
           /\ lstrip(VersionAt(k - 1).s, RangePrefix) = lstrip(VersionAt(k).s, RangePrefix))
              => k \notin AdoptionCommits
    /\ \A j \in 1..Len(a_adoptions) :
          /\ a_adoptions[j].version = lstrip(a_adoptions[j].raw_version, RangePrefix)
          /\ a_adoptions[j].version # <<>> => Head(a_adoptions[j].version) \notin RangePrefix
          /\ a_adoptions[j].raw_version = VersionAt(a_adoptions[j].commit).s

\* the part of C5 that holds: what is stored
C5_StoredStripped ==
    \A j \in 1..Len(a_adoptions) :
        /\ a_adoptions[j].version = lstrip(a_adoptions[j].raw_version, RangePrefix)
        /\ a_adoptions[j].version # <<>> => Head(a_adoptions[j].version) \notin RangePrefix
        /\ a_adoptions[j].raw_version = VersionAt(a_adoptions[j].commit).s

\* C7: an adoption of a known release has lag_days = the whole days from the
\* release date to the adoption date; an adoption of a version that is not in
\* the release table has no lag at all (no entry, None in the dashboard data)
\* and adds nothing to adoption_lags nor to the avg / median / min / max lag.
C7_LagOnlyForKnownReleases ==
    a_pc = "done" /\ a_metrics.present =>
        LET m == a_metrics
            n == Len(m.adoption_lags)
        IN /\ \A j \in 1..Len(Adoptions) :
                 /\ Cardinality(InfosOf(j)) = IF Known(j) THEN 1 ELSE 0
                 /\ a_dashboard[j].lag_days.present = Known(j)
                 /\ Known(j) =>
                       /\ \A i \in InfosOf(j) :
                             /\ IsWholeDays(m.versions[i].lag_days,
                                            Adoptions[j].adoption_date
                                                - ReleaseDate(a_releases, Adoptions[j].version))
                             /\ m.adoption_lags[i] = m.versions[i].lag_days
                       /\ IsWholeDays(a_dashboard[j].lag_days.days,
                                      Adoptions[j].adoption_date
                                          - ReleaseDate(a_releases, Adoptions[j].version))
           /\ Len(m.versions) = Cardinality(KnownAdoptions)
           /\ n = Cardinality(KnownAdoptions)
           /\ \A i \in 2..Len(m.versions) : m.versions[i - 1].commit < m.versions[i].commit
           /\ m.avg_lag_days.present = (n > 0)
           /\ m.median_lag_days.present = (n > 0)
           /\ m.min_lag_days.present = (n > 0)
           /\ m.max_lag_days.present = (n > 0)
           /\ n > 0 =>
                 /\ m.avg_lag_days.num = Sum(m.adoption_lags) /\ m.avg_lag_days.den = n
                 /\ \E i \in 1..n : m.min_lag_days.num = m.adoption_lags[i]
                 /\ \E i \in 1..n : m.max_lag_days.num = m.adoption_lags[i]
                 /\ \A i \in 1..n :
                       /\ m.min_lag_days.num <= m.adoption_lags[i]
                       /\ m.adoption_lags[i] <= m.max_lag_days.num
                 /\ 2 * Cardinality({i \in 1..n : m.adoption_lags[i] * m.median_lag_days.den
                                                     <= m.median_lag_days.num}) >= n
                 /\ 2 * Cardinality({i \in 1..n : m.adoption_lags[i] * m.median_lag_days.den
                                                     >= m.median_lag_days.num}) >= n

\* C7's case: 1.0.0 adopted 14 days after its release, then a version that
\* is no release, then a known release again
C7_Witness ==
    /\ a_pc = "done" /\ a_metrics.present
    /\ Len(Adoptions) = 3
    /\ Adoptions[1].version = v100 /\ Known(1)
    /\ a_metrics.versions[1].lag_days = 14
    /\ ~Known(2)
    /\ Known(3)
    /\ a_metrics.adoption_lags = <<14, a_metrics.versions[2].lag_days>>
    /\ ~a_dashboard[2].lag_days.present

\* C9: for every adoption after the first, when the previous or the current
\* version is not in the release table, its versions_skipped is recorded as 0
\* and that 0 enters skip_counts.
C9_UnknownVersionSkipsZero ==
    a_pc = "done" /\ a_metrics.present =>
        /\ \A j \in 2..Len(Adoptions) :
              (~Known(j) \/ ~Known(j - 1)) =>
                  \E i \in InfosOf(j) :
                      /\ a_metrics.versions[i].has_previous
                      /\ a_metrics.versions[i].versions_skipped = 0
        /\ Len(a_metrics.skip_counts) = IF Adoptions = <<>> THEN 0 ELSE Len(Adoptions) - 1

\* what the code does for C9: 0 when only the previous version is unknown,
\* nothing recorded when the current one is
C9_AsImplemented ==
    a_pc = "done" /\ a_metrics.present =>
        \A j \in 2..Len(Adoptions) :
            /\ (Known(j) /\ ~Known(j - 1)) =>
                  \A i \in InfosOf(j) : a_metrics.versions[i].versions_skipped = 0
            /\ ~Known(j) => InfosOf(j) = {}

\* C10: for every adoption after the first, days_since_last_update is set and
\* is the whole days between its date and the previous adoption's date,
\* whether or not its version is a known release; the mean update interval is
\* taken over total_updates - 1 values.
C10_IntervalForEveryUpdate ==
    a_pc = "done" /\ a_metrics.present =>
        /\ \A j \in 2..Len(Adoptions) :
              \E i \in InfosOf(j) :
                  /\ a_metrics.versions[i].has_previous
                  /\ IsWholeDays(a_metrics.versions[i].days_since_last_update,
                                 Adoptions[j].adoption_date - Adoptions[j - 1].adoption_date)
        /\ a_metrics.total_updates >= 1 =>
              Len(a_metrics.update_intervals) = a_metrics.total_updates - 1
        /\ a_metrics.avg_update_interval.present =>
              a_metrics.avg_update_interval.den = a_metrics.total_updates - 1

\* what the code does for C10: the interval is right wherever it is recorded,
\* and it is recorded only for adoptions of known releases
C10_AsImplemented ==
    a_pc = "done" /\ a_metrics.present =>
        \A j \in 2..Len(Adoptions) :
            /\ Known(j) =>
                  \A i \in InfosOf(j) :
                      IsWholeDays(a_metrics.versions[i].days_since_last_update,
                                  Adoptions[j].adoption_date - Adoptions[j - 1].adoption_date)
            /\ ~Known(j) => InfosOf(j) = {}

\* C11: when the history query succeeded and returned no commit, the
\* repository has an entry in the metrics with total_updates = 0, empty lists
\* and none of avg_lag_days, median_lag_days, min_lag_days, max_lag_days,
\* avg_versions_skipped, avg_update_interval set.
C11_NoCommitsNoStatistics ==
    [][(a_pc = "walked" /\ a_n = 0 /\ a_pc' = "calculated") =>
          /\ a_metrics'.present
          /\ a_metrics'.total_updates = 0
          /\ a_metrics'.versions = <<>>
          /\ a_metrics'.adoption_lags = <<>>
          /\ ~a_metrics'.avg_lag_days.present
          /\ ~a_metrics'.median_lag_days.present
          /\ ~a_metrics'.min_lag_days.present
          /\ ~a_metrics'.max_lag_days.present
          /\ ~a_metrics'.avg_versions_skipped.present
          /\ ~a_metrics'.avg_update_interval.present]_vars

\* C11's case: the metrics of a repository whose `git log` gave no commit
C11_Witness ==
    /\ a_pc = "done"
    /\ a_n = 0
    /\ a_repo_adoptions.present /\ a_repo_adoptions.adoptions = <<>>
    /\ a_metrics.present
    /\ a_metrics.total_updates = 0
    /\ ~a_metrics.avg_lag_days.present
    /\ a_dashboard = <<>>

\* C26: every versions_skipped calculate_adoption_metrics produces is >= 0,
\* for every adoption list get_repo_adoptions can build, two consecutive
\* adoptions of the same stored version ("1.2.0" then "^1.2.0") included.
C26_VersionsSkippedNonNegative ==
    a_metrics.present =>
        /\ \A j \in 1..Len(a_metrics.versions) :
              a_metrics.versions[j].has_previous => a_metrics.versions[j].versions_skipped >= 0
        /\ \A j \in 1..Len(a_metrics.skip_counts) : a_metrics.skip_counts[j] >= 0

\* what the code does for C26: abs(idx2 - idx1) - 1 is -1 when the two
\* stored versions are the same release, and >= 0 otherwise
C26_AsImplemented ==
    a_metrics.present =>
        \A j \in 1..Len(a_metrics.versions) :
            LET vi == a_metrics.versions[j]
                prev == SelectSeq(a_repo_adoptions.adoptions,
                                  LAMBDA a : a.commit < vi.commit)
            IN vi.has_previous =>
                  /\ vi.versions_skipped >= -1
                  /\ vi.versions_skipped = -1 <=> prev[Len(prev)].version = vi.version

\* two consecutive adoptions of one stored release, counted as -1 skipped
C26_SameReleaseTwice ==
    /\ a_metrics.present
    /\ \E j \in 1..Len(a_metrics.skip_counts) : a_metrics.skip_counts[j] = -1
    /\ \E i \in 1..(Len(a_repo_adoptions.adoptions) - 1) :
          /\ a_repo_adoptions.adoptions[i].version = a_repo_adoptions.adoptions[i + 1].version
          /\ a_repo_adoptions.adoptions[i].raw_version
                # a_repo_adoptions.adoptions[i + 1].raw_version

\* C27: in the list get_repo_adoptions builds every entry has a version,
\* two consecutive entries differ in raw version, the entries are in the
\* order of the commits `git log` returned, and a commit at which the
\* package is absent or whose manifest cannot be read adds no entry and
\* leaves the remembered last version as it was.
C27_AdoptionListWellFormed ==
    a_pc \in {"loop", "walked", "raised"} =>
        /\ \A j \in 1..Len(a_adoptions) :
              LET e == a_adoptions[j]
              IN /\ Truthy(Str(e.raw_version))
                 /\ e.commit \in 1..Len(a_docs)
                 /\ version_at_commit(a_docs[e.commit]).version = Str(e.raw_version)
                 /\ e.adoption_date = a_docs[e.commit].date
                 /\ e.version = lstrip(e.raw_version, RangePrefix)
        /\ \A j \in 1..(Len(a_adoptions) - 1) :
              /\ a_adoptions[j].raw_version # a_adoptions[j + 1].raw_version
              /\ a_adoptions[j].commit < a_adoptions[j + 1].commit
        /\ \A k \in 1..Len(a_docs) :
              (~version_at_commit(a_docs[k]).raised
               /\ ~Truthy(version_at_commit(a_docs[k]).version))
                  => \A j \in 1..Len(a_adoptions) : a_adoptions[j].commit # k
        /\ a_last_version = IF a_adoptions = <<>> THEN None
                            ELSE Str(a_adoptions[Len(a_adoptions)].raw_version)

\* C27's case: an adoption, a commit without the package or without a
\* readable manifest, then the same raw version again: one entry
C27_Witness ==
    /\ a_pc = "walked"
    /\ Len(a_docs) = 3
    /\ ~Truthy(version_at_commit(a_docs[2]).version)
    /\ version_at_commit(a_docs[1]).version = version_at_commit(a_docs[3]).version
    /\ Len(a_adoptions) = 1
    /\ a_repo_adoptions.adoptions = a_adoptions

\* C17 read on the analyzer's walk: last_version follows every commit whose
\* manifest was retrieved (it does not: it moves only when an adoption is
\* appended, so "A, package absent, A" gives one adoption)
AnalyzerBaselineFollowsEveryCommit ==
    (a_pc \in {"loop", "walked"} /\ a_docs # <<>> /\ a_docs[Len(a_docs)].readable)
        => a_last_version = VersionAt(Len(a_docs))

(***************************************************************************)
(* SpecDash: calculate_adoption_metrics over several repositories and the  *)
(* 'All Repos' column of the dashboard's comparison table (buildTable).    *)
(* A repository name is its rank among the names in string order.          *)
(***************************************************************************)
MaxDashRepos == 2

\* midnight of day d, in ticks
Midnight(d) == d * TicksPerDay

\* release files: 1.0.0 on day 0 and 2.0.0 on day 20; the same with 1.2.0 on day 10
DashReleaseFiles ==
    { <<[version |-> v200, date |-> Midnight(20)], [version |-> v100, date |-> Midnight(0)]>>,
      <<[version |-> v200, date |-> Midnight(20)], [version |-> v120, date |-> Midnight(10)],
        [version |-> v100, date |-> Midnight(0)]>> }

\* the adoption lists get_repo_adoptions may have stored for a repository
DashAdoptionLists ==
    { <<>>,
      <<adoption(1, Str(v100), Midnight(0)), adoption(2, Str(v200), Midnight(30))>>,
      <<adoption(1, Str(v200), Midnight(25))>>,
      <<adoption(1, Str(v100), Midnight(0))>>,
      <<adoption(1, Str(v100), Midnight(3) + 1), adoption(2, Str(c120), Midnight(12))>>,
      <<adoption(1, Str(v999), Midnight(5))>>,
      <<adoption(1, Str(v100), Midnight(1)), adoption(2, Str(v999), Midnight(6)),
        adoption(3, Str(v200), Midnight(21) + 1)>> }

\* the orders in which n repositories may have been inserted
DashOrders(n) == {o \in [1..n -> 1..n] : \A i, j \in 1..n : i # j => o[i] # o[j]}

DashInit ==
    /\ d_releases \in {load_releases(<<>>, f) : f \in DashReleaseFiles}
    /\ \E n \in 1..MaxDashRepos :
          \E o \in DashOrders(n), lists \in [1..n -> DashAdoptionLists] :
              d_repo_adoptions = [i \in 1..n |-> [name |-> o[i], adoptions |-> lists[i]]]
    /\ d_metrics = <<>>
    /\ d_all = [present |-> FALSE]
    /\ d_csv = <<>>
    /\ d_report = [present |-> FALSE]
    /\ d_pc = "start"
    /\ ResolveIdle
    /\ TrackIdle
    /\ AdoptIdle
    /\ SkipIdle
    /\ OrchIdle
    /\ MainIdle
    /\ TwiceIdle
    /\ UpdateIdle

\* metrics = analyzer.calculate_adoption_metrics(): one entry per key of
\* repo_adoptions, in its order
DashCalculate ==
    /\ d_pc = "start"
    /\ d_metrics' = [i \in 1..Len(d_repo_adoptions) |->
                        [name |-> d_repo_adoptions[i].name,
                         metrics |-> calculate_adoption_metrics(d_repo_adoptions[i].adoptions,
                                                                d_releases)]]
    /\ d_pc' = "calculated"
    /\ UNCHANGED <<d_releases, d_repo_adoptions, d_all, d_csv, d_report>>
    /\ UNCHANGED dashOthers

\* ---- generate_comparison_csv ----
\* one row per entry of 'versions'; `.get('versions_skipped', 0)` and
\* `.get('days_since_last_update', 0)` for an entry without the key
comparison_row(name, vi) ==
    [repository |-> name,
     version |-> vi.version,
     release_date |-> Days(vi.release_date),
     adoption_date |-> Days(vi.adoption_date),
     lag_days |-> vi.lag_days,
     versions_skipped |-> IF vi.has_previous THEN vi.versions_skipped ELSE 0,
     days_since_last_update |-> IF vi.has_previous THEN vi.days_since_last_update ELSE 0]

RECURSIVE comparison_rows(_)
comparison_rows(metrics) ==
    IF metrics = <<>> THEN <<>>
    ELSE [j \in 1..Len(Head(metrics).metrics.versions) |->
             comparison_row(Head(metrics).name, Head(metrics).metrics.versions[j])]
            \o comparison_rows(Tail(metrics))

\* `rows.sort(key=lambda x: x['adoption_date'])`: a stable sort by day
RECURSIVE InsertByAdoptionDate(_, _)
InsertByAdoptionDate(sorted, x) ==
    IF sorted = <<>> THEN <<x>>
    ELSE IF x.adoption_date < Head(sorted).adoption_date THEN <<x>> \o sorted
    ELSE <<Head(sorted)>> \o InsertByAdoptionDate(Tail(sorted), x)

RECURSIVE SortByAdoptionDate(_)
SortByAdoptionDate(rows) ==
    IF rows = <<>> THEN <<>>
    ELSE InsertByAdoptionDate(SortByAdoptionDate(SubSeq(rows, 1, Len(rows) - 1)),
                              rows[Len(rows)])

GenerateComparisonCsv ==
    /\ d_pc = "calculated"
    /\ d_csv' = SortByAdoptionDate(comparison_rows(d_metrics))
    /\ d_pc' = "csv_written"
    /\ UNCHANGED <<d_releases, d_repo_adoptions, d_metrics, d_all, d_report>>
    /\ UNCHANGED dashOthers

\* ---- generate_insights_report ----
\* `if repo_metrics.get(key):` is taken for a statistic that is there and not 0
StatTruthy(stat) == stat.present /\ stat.num # 0

\* `.get(key, 0)`
get_or_zero(stat) == IF stat.present THEN stat ELSE Fraction(0, 1)

\* `{:.1f}`: the nearest tenth, in tenths; a value halfway goes to the even
\* tenth (the halves that are exact in binary: x.25, x.75)
format_1f(stat) ==
    LET q == (10 * stat.num) \div stat.den
        r == (10 * stat.num) % stat.den
    IN IF 2 * r < stat.den THEN q
       ELSE IF 2 * r > stat.den THEN q + 1
       ELSE IF q % 2 = 0 THEN q ELSE q + 1

FractionLess(a, b) == a.num * b.den < b.num * a.den

\* a < b for keys `.get(key, float('inf'))`
LessOrInf(a, b) == a.present /\ (~b.present \/ FractionLess(a, b))

\* a line of a repository's section: printed or not, and the number in it
stat_line(stat) ==
    [printed |-> StatTruthy(stat), tenths |-> IF StatTruthy(stat) THEN format_1f(stat) ELSE 0]

\* a number of the comparative part: always printed
stat_or_zero(stat) == [printed |-> TRUE, tenths |-> format_1f(get_or_zero(stat))]

report_section(entry) ==
    [name |-> entry.name,
     total_updates |-> entry.metrics.total_updates,
     avg_lag_days |-> stat_line(entry.metrics.avg_lag_days),
     avg_versions_skipped |-> stat_line(entry.metrics.avg_versions_skipped),
     avg_update_interval |-> stat_line(entry.metrics.avg_update_interval)]

\* repo_metrics[key], absent when the key is not there
stat_of(m, key) ==
    CASE key = "avg_lag_days" -> m.avg_lag_days
      [] key = "avg_versions_skipped" -> m.avg_versions_skipped
      [] key = "avg_update_interval" -> m.avg_update_interval

\* min(metrics.items(), key=...) with absent as infinity: the first least
min_or_inf(metrics, key) ==
    CHOOSE i \in 1..Len(metrics) :
        /\ \A j \in 1..Len(metrics) :
              ~LessOrInf(stat_of(metrics[j].metrics, key), stat_of(metrics[i].metrics, key))
        /\ \A j \in 1..(i - 1) :
              LessOrInf(stat_of(metrics[i].metrics, key), stat_of(metrics[j].metrics, key))

\* max(metrics.items(), key=...) with absent as 0: the first greatest
max_or_zero(metrics, key) ==
    CHOOSE i \in 1..Len(metrics) :
        /\ \A j \in 1..Len(metrics) :
              ~FractionLess(get_or_zero(stat_of(metrics[i].metrics, key)),
                            get_or_zero(stat_of(metrics[j].metrics, key)))
        /\ \A j \in 1..(i - 1) :
              FractionLess(get_or_zero(stat_of(metrics[j].metrics, key)),
                           get_or_zero(stat_of(metrics[i].metrics, key)))

\* sorted(metrics.items(), key=total_updates, reverse=True): stable
RECURSIVE InsertByUpdates(_, _)
InsertByUpdates(sorted, x) ==
    IF sorted = <<>> THEN <<x>>
    ELSE IF x.metrics.total_updates > Head(sorted).metrics.total_updates THEN <<x>> \o sorted
    ELSE <<Head(sorted)>> \o InsertByUpdates(Tail(sorted), x)

RECURSIVE ranked_by_updates(_)
ranked_by_updates(metrics) ==
    IF metrics = <<>> THEN <<>>
    ELSE InsertByUpdates(ranked_by_updates(SubSeq(metrics, 1, Len(metrics) - 1)),
                         metrics[Len(metrics)])

named_stat(entry, key) ==
    [name |-> entry.name, value |-> stat_or_zero(stat_of(entry.metrics, key))]

comparative_insights(metrics) ==
    IF Len(metrics) < 2 THEN [present |-> FALSE]
    ELSE LET ranked == ranked_by_updates(metrics)
         IN [present |-> TRUE,
             fastest_adopter |->
                 named_stat(metrics[min_or_inf(metrics, "avg_lag_days")], "avg_lag_days"),
             slowest_adopter |->
                 named_stat(metrics[max_or_zero(metrics, "avg_lag_days")], "avg_lag_days"),
             most_skipping |->
                 named_stat(metrics[max_or_zero(metrics, "avg_versions_skipped")],
                            "avg_versions_skipped"),
             least_skipping |->
                 named_stat(metrics[min_or_inf(metrics, "avg_versions_skipped")],
                            "avg_versions_skipped"),
             ranking |->
                 [i \in 1..Len(ranked) |->
                     [name |-> ranked[i].name,
                      total_updates |-> ranked[i].metrics.total_updates,
                      interval |-> stat_or_zero(ranked[i].metrics.avg_update_interval)]]]

generate_insights_report(metrics) ==
    [present |-> TRUE,
     sections |-> [i \in 1..Len(metrics) |-> report_section(metrics[i])],
     comparative |-> comparative_insights(metrics)]

GenerateInsightsReport ==
    /\ d_pc = "csv_written"
    /\ d_report' = generate_insights_report(d_metrics)
    /\ d_pc' = "reported"
    /\ UNCHANGED <<d_releases, d_repo_adoptions, d_metrics, d_all, d_csv>>
    /\ UNCHANGED dashOthers

\* `Object.keys(metrics).sort()`: the entries by name
RECURSIVE InsertByName(_, _)
InsertByName(sorted, x) ==
    IF sorted = <<>> THEN <<x>>
    ELSE IF x.name < Head(sorted).name THEN <<x>> \o sorted
    ELSE <<Head(sorted)>> \o InsertByName(Tail(sorted), x)

RECURSIVE sortedRepos(_)
sortedRepos(metrics) ==
    IF metrics = <<>> THEN <<>>
    ELSE InsertByName(sortedRepos(SubSeq(metrics, 1, Len(metrics) - 1)), metrics[Len(metrics)])

\* a column that pools the first repository's lags only
allAdoptionLagsFirstOnly(repos) ==
    IF repos = <<>> THEN <<>> ELSE Head(repos).metrics.adoption_lags

\* `allAdoptionLags = allAdoptionLags.concat(repoData.adoption_lags)` over sortedRepos
RECURSIVE allAdoptionLags(_)
allAdoptionLags(repos) ==
    IF repos = <<>> THEN <<>>
    ELSE Head(repos).metrics.adoption_lags \o allAdoptionLags(Tail(repos))

RECURSIVE allSkipCounts(_)
allSkipCounts(repos) ==
    IF repos = <<>> THEN <<>>
    ELSE Head(repos).metrics.skip_counts \o allSkipCounts(Tail(repos))

RECURSIVE allUpdateIntervals(_)
allUpdateIntervals(repos) ==
    IF repos = <<>> THEN <<>>
    ELSE Head(repos).metrics.update_intervals \o allUpdateIntervals(Tail(repos))

RECURSIVE totalUpdatesSum(_)
totalUpdatesSum(repos) ==
    IF repos = <<>> THEN 0
    ELSE Head(repos).metrics.total_updates + totalUpdatesSum(Tail(repos))

\* maxLagOverall: the largest max_lag_days that is set, null when none is
RECURSIVE maxLagOverall(_)
maxLagOverall(repos) ==
    IF repos = <<>> THEN Absent
    ELSE LET rest == maxLagOverall(SubSeq(repos, 1, Len(repos) - 1))
             repoMax == repos[Len(repos)].metrics.max_lag_days
         IN IF ~repoMax.present THEN rest
            ELSE IF ~rest.present \/ repoMax.num > rest.num THEN repoMax
            ELSE rest

\* buildTable's mean: null for an empty array
js_mean(arr) == IF arr = <<>> THEN Absent ELSE Fraction(Sum(arr), Len(arr))

\* buildTable(metrics): the 'All Repos' cells
BuildTable ==
    /\ d_pc = "reported"
    /\ LET repos == sortedRepos(d_metrics)
       IN d_all' = [present |-> TRUE,
                    total_updates |-> totalUpdatesSum(repos),
                    adoption_lags |-> allAdoptionLags(repos),
                    avg_lag_days |-> js_mean(allAdoptionLags(repos)),
                    max_lag_days |-> maxLagOverall(repos),
                    avg_versions_skipped |-> js_mean(allSkipCounts(repos)),
                    avg_update_interval |-> js_mean(allUpdateIntervals(repos))]
    /\ d_pc' = "built"
    /\ UNCHANGED <<d_releases, d_repo_adoptions, d_metrics, d_csv, d_report>>
    /\ UNCHANGED dashOthers

DashNext ==
    \/ DashCalculate
    \/ GenerateComparisonCsv
    \/ GenerateInsightsReport
    \/ BuildTable

SpecDash == DashInit /\ [][DashNext]_vars

\* ---- the example of C12 ----
\* releases 1.0.0 on day 0 and 2.0.0 on day 20
ExampleReleases ==
    /\ Len(d_releases) = 2
    /\ InReleases(d_releases, v100) /\ ReleaseDate(d_releases, v100) = Midnight(0)
    /\ InReleases(d_releases, v200) /\ ReleaseDate(d_releases, v200) = Midnight(20)

\* repository A (name 1) adopted 1.0.0 on day 0 and 2.0.0 on day 30,
\* repository B (name 2) adopted 2.0.0 on day 25
ExampleAdoptions ==
    /\ Len(d_repo_adoptions) = 2
    /\ \E a, b \in 1..2 :
          /\ d_repo_adoptions[a].name = 1
          /\ Len(d_repo_adoptions[a].adoptions) = 2
          /\ d_repo_adoptions[a].adoptions[1].version = v100
          /\ d_repo_adoptions[a].adoptions[1].adoption_date = Midnight(0)
          /\ d_repo_adoptions[a].adoptions[2].version = v200
          /\ d_repo_adoptions[a].adoptions[2].adoption_date = Midnight(30)
          /\ d_repo_adoptions[b].name = 2
          /\ Len(d_repo_adoptions[b].adoptions) = 1
          /\ d_repo_adoptions[b].adoptions[1].version = v200
          /\ d_repo_adoptions[b].adoptions[1].adoption_date = Midnight(25)

MetricsOf(name) ==
    CHOOSE i \in 1..Len(d_metrics) : d_metrics[i].name = name

IsValue(stat, v) == stat.present /\ stat.den > 0 /\ stat.num = v * stat.den

\* C12: with releases 1.0.0 on day 0 and 2.0.0 on day 20, A adopting 1.0.0 on
\* day 0 and 2.0.0 on day 30 and B adopting 2.0.0 on day 25, A's avg_lag_days
\* is 5, B's is 5 and the 'All Repos' average lag, over the lags 0, 10, 5 of
\* all repositories, is 15/3 = 5.
C12_EndToEndAverageLag ==
    (ExampleReleases /\ ExampleAdoptions) =>
        /\ d_pc \in {"calculated", "csv_written", "reported", "built"} =>
              /\ d_metrics[MetricsOf(1)].metrics.adoption_lags = <<0, 10>>
              /\ IsValue(d_metrics[MetricsOf(1)].metrics.avg_lag_days, 5)
              /\ d_metrics[MetricsOf(2)].metrics.adoption_lags = <<5>>
              /\ IsValue(d_metrics[MetricsOf(2)].metrics.avg_lag_days, 5)
        /\ d_pc = "built" =>
              /\ d_all.adoption_lags = <<0, 10, 5>>
              /\ d_all.avg_lag_days = Fraction(15, 3)
              /\ IsValue(d_all.avg_lag_days, 5)
              /\ d_all.total_updates = 3

\* C12's case: the table built for the example, B inserted before A
C12_Witness ==
    /\ ExampleReleases /\ ExampleAdoptions
    /\ d_repo_adoptions[1].name = 2
    /\ d_pc = "built"
    /\ IsValue(d_all.avg_lag_days, 5)

\* ---- the report seen from outside ----
Reported == d_pc \in {"reported", "built"}

SectionShows(line, stat) ==
    IF stat.present THEN line.printed /\ line.tenths = format_1f(stat)
    ELSE ~line.printed

RankedWithStat(named, key) ==
    named.value.printed => stat_of(d_metrics[MetricsOf(named.name)].metrics, key).present

\* C24: the report emitters keep an absent statistic apart from one equal to
\* 0: a statistic that is there is printed with its value, 0 included; a
\* repository without the statistic is neither printed nor ranked with a
\* number for it.
C24_AbsentDistinctFromZero ==
    Reported =>
        /\ \A i \in 1..Len(d_metrics) :
              /\ SectionShows(d_report.sections[i].avg_lag_days,
                              d_metrics[i].metrics.avg_lag_days)
              /\ SectionShows(d_report.sections[i].avg_versions_skipped,
                              d_metrics[i].metrics.avg_versions_skipped)
              /\ SectionShows(d_report.sections[i].avg_update_interval,
                              d_metrics[i].metrics.avg_update_interval)
        /\ d_report.comparative.present =>
              /\ RankedWithStat(d_report.comparative.fastest_adopter, "avg_lag_days")
              /\ RankedWithStat(d_report.comparative.slowest_adopter, "avg_lag_days")
              /\ RankedWithStat(d_report.comparative.most_skipping, "avg_versions_skipped")
              /\ RankedWithStat(d_report.comparative.least_skipping, "avg_versions_skipped")
              /\ \A k \in 1..Len(d_report.comparative.ranking) :
                    d_report.comparative.ranking[k].interval.printed =>
                        d_metrics[MetricsOf(d_report.comparative.ranking[k].name)]
                            .metrics.avg_update_interval.present

\* the parts of C24, one by one
PresentZeroIsReported ==
    Reported =>
        \A i \in 1..Len(d_metrics) :
            d_metrics[i].metrics.avg_lag_days.present
                => d_report.sections[i].avg_lag_days.printed

AbsentIsNotRanked ==
    (Reported /\ d_report.comparative.present) =>
        RankedWithStat(d_report.comparative.slowest_adopter, "avg_lag_days")

AbsentIntervalIsNotPrinted ==
    (Reported /\ d_report.comparative.present) =>
        \A k \in 1..Len(d_report.comparative.ranking) :
            d_report.comparative.ranking[k].interval.printed =>
                d_metrics[MetricsOf(d_report.comparative.ranking[k].name)]
                    .metrics.avg_update_interval.present

\* what the code does for C24: a section line is printed for a statistic
\* that is there and not 0; the comparative part prints a number for every
\* repository, 0 for the one without the statistic
C24_AsImplemented ==
    Reported =>
        /\ \A i \in 1..Len(d_metrics) :
              /\ d_report.sections[i].avg_lag_days.printed
                    <=> (d_metrics[i].metrics.avg_lag_days.present
                         /\ d_metrics[i].metrics.avg_lag_days.num # 0)
              /\ d_report.sections[i].avg_versions_skipped.printed
                    <=> (d_metrics[i].metrics.avg_versions_skipped.present
                         /\ d_metrics[i].metrics.avg_versions_skipped.num # 0)
              /\ d_report.sections[i].avg_update_interval.printed
                    <=> (d_metrics[i].metrics.avg_update_interval.present
                         /\ d_metrics[i].metrics.avg_update_interval.num # 0)
        /\ d_report.comparative.present <=> Len(d_metrics) >= 2
        /\ d_report.comparative.present =>
              \A k \in 1..Len(d_report.comparative.ranking) :
                  LET stat == d_metrics[MetricsOf(d_report.comparative.ranking[k].name)]
                                  .metrics.avg_update_interval
                  IN /\ d_report.comparative.ranking[k].interval.printed
                     /\ ~stat.present => d_report.comparative.ranking[k].interval.tenths = 0

\* a repository whose average lag is there and 0, its line not printed
C24_ZeroLagDropped ==
    /\ Reported
    /\ \E i \in 1..Len(d_metrics) :
          /\ IsValue(d_metrics[i].metrics.avg_lag_days, 0)
          /\ ~d_report.sections[i].avg_lag_days.printed

(***************************************************************************)
(* SpecOrch: MultiRepoVersionTracker.process_repositories over the list    *)
(* get_repo_list returned, in the thread pool or sequentially, then        *)
(* analyze_adoption_patterns and export_to_csv over repo_results.          *)
(*                                                                         *)
(* A path is [dir, name]: the parent directory and the last component,     *)
(* both numbered in string order; path.name is what repo_path.name gives.  *)
(* A git date "%ai" is [clock, offset]: the date and time as written and   *)
(* the UTC offset written after it.                                        *)
(***************************************************************************)
MaxRepos == 5

MaxClashRepos == 3

\* `max_workers=min(4, len(repos))`
PoolSize == 4

GitDate(clock, offset) == [clock |-> clock, offset |-> offset]

\* parse_git_date: the first two fields of the string, the offset is dropped
parse_git_date(date_str) == date_str.clock

Commit(c, date, info_ok) ==
    [readable |-> c.readable, doc |-> c.doc, date |-> date, info_ok |-> info_ok]

DepOnly(v) == Readable(Doc(TRUE, Map(Str(v)), Missing, PnpmMissing))

CurrentFile(v) ==
    [exists |-> TRUE, json |-> TRUE, doc |-> Doc(TRUE, Map(Str(v)), Missing, PnpmMissing)]

BrokenCurrentFile ==
    [exists |-> TRUE, json |-> FALSE, doc |-> Doc(FALSE, Missing, Missing, PnpmMissing)]

Repository(log_ok, commits, current) ==
    [log_ok |-> log_ok, commits |-> commits, current |-> current]

\* 1.0.0 on day 1 after a commit whose manifest cannot be read; now ^1.2.0
RepoA ==
    Repository(TRUE,
               <<Commit(Unreadable, GitDate(0, 0), TRUE),
                 Commit(DepOnly(v100), GitDate(Midnight(1), 0), TRUE)>>,
               CurrentFile(c120))

\* 1.0.0 at the same time as RepoA, 1.2.0 on day 3; now 1.2.0
RepoB ==
    Repository(TRUE,
               <<Commit(DepOnly(v100), GitDate(Midnight(1), 0), TRUE),
                 Commit(DepOnly(v120), GitDate(Midnight(3), 0), TRUE)>>,
               CurrentFile(v120))

\* `git log` fails
RepoLogFails == Repository(FALSE, <<>>, CurrentFile(v100))

\* `git show -s` fails at the second change
RepoInfoFails ==
    Repository(TRUE,
               <<Commit(DepOnly(v100), GitDate(Midnight(1), 0), TRUE),
                 Commit(DepOnly(v120), GitDate(Midnight(2), 0), FALSE)>>,
               CurrentFile(v120))

\* the working copy's package.json is not JSON
RepoCurrentBroken ==
    Repository(TRUE,
               <<Commit(DepOnly(v100), GitDate(Midnight(2), 0), TRUE)>>,
               BrokenCurrentFile)

\* 1.2.0 at midday of day 2, back to 1.0.0 at midday of day 4, committed
\* in another time zone; now 1.0.0
RepoC ==
    Repository(TRUE,
               <<Commit(DepOnly(v120), GitDate(Midnight(2) + 1, 1), TRUE),
                 Commit(DepOnly(v100), GitDate(Midnight(4) + 1, 1), TRUE)>>,
               CurrentFile(v100))

Repositories == {RepoA, RepoB, RepoC, RepoLogFails, RepoInfoFails, RepoCurrentBroken}

PlainRepositories == {RepoA, RepoCurrentBroken}

\* `sorted(set(repos))`: the paths in order, none twice
PathBefore(p, q) == p.dir < q.dir \/ (p.dir = q.dir /\ p.name < q.name)

RECURSIVE SortPaths(_)
SortPaths(paths) ==
    IF paths = {} THEN <<>>
    ELSE LET first == CHOOSE p \in paths : \A q \in paths \ {p} : PathBefore(p, q)
         IN <<first>> \o SortPaths(paths \ {first})

\* what get_repo_list can return: repositories of two parent directories
\* (a file or a comma-separated list), or those of one directory (a scan)
ListedPaths ==
    {SortPaths(ps) : ps \in {qs \in SUBSET [dir : 1..2, name : 1..2] :
                                qs # {} /\ Cardinality(qs) <= MaxClashRepos}}

ScannedPaths == {[i \in 1..n |-> [dir |-> 1, name |-> i]] : n \in 1..MaxRepos}

RepoLists ==
    UNION {{[i \in 1..Len(ps) |-> [path |-> ps[i], repo |-> rs[i]]] :
               rs \in [1..Len(ps) -> Repositories]} : ps \in ListedPaths}
    \cup
    UNION {{[i \in 1..Len(ps) |-> [path |-> ps[i], repo |-> rs[i]]] :
               rs \in [1..Len(ps) -> PlainRepositories]} : ps \in ScannedPaths}

\* the change record of track_repo_version_changes
repo_change_record(repo_name, k, c, versions, last_versions) ==
    [repository |-> repo_name,
     commit |-> k,
     date |-> c.date,
     dependency_version |-> versions.dependency,
     override_version |-> versions.override,
     transitive_overrides |-> versions.transitive_overrides,
     effective_version |-> effective_version(versions),
     previous_effective |-> last_effective(last_versions)]

\* the loop `for commit_hash in commits` after its first k iterations:
\* [status, last_versions, changes], status "ok", "error" (CalledProcessError
\* from get_commit_info) or "raised" (another exception)
RECURSIVE walk_commits(_, _, _)
walk_commits(repo_name, commits, k) ==
    IF k = 0 THEN [status |-> "ok", last_versions |-> NoVersions, changes |-> <<>>]
    ELSE LET before == walk_commits(repo_name, commits, k - 1)
             c == commits[k]
             versions == extract_component_versions(c.doc)
         IN IF before.status # "ok" \/ Skipped(c) THEN before
            ELSE IF versions.raised THEN [before EXCEPT !.status = "raised"]
            ELSE IF ~ShouldEmit(versions, before.last_versions)
            THEN [before EXCEPT !.last_versions = versions]
            ELSE IF ~c.info_ok THEN [before EXCEPT !.status = "error"]
            ELSE [status |-> "ok",
                  last_versions |-> versions,
                  changes |-> Append(before.changes,
                                     repo_change_record(repo_name, k, c, versions,
                                                        before.last_versions))]

\* the dict returned by the except branch
error_entry(path) ==
    [repository |-> path.name, path |-> path, error |-> TRUE, changes |-> <<>>,
     total_changes |-> 0, current_version |-> None, commits_analyzed |-> 0]

\* a tracker that keeps what it had found when get_commit_info fails
track_repo_version_changes_keeping_partial(path, repo) ==
    LET walk == walk_commits(path.name, repo.commits, Len(repo.commits))
        cur == repo.current
        current_versions == extract_component_versions(cur.doc)
    IN IF ~repo.log_ok
       THEN [raised |-> FALSE, value |-> error_entry(path)]
       ELSE IF walk.status = "raised"
                 \/ (cur.exists /\ (~cur.json \/ current_versions.raised))
       THEN [raised |-> TRUE, value |-> error_entry(path)]
       ELSE [raised |-> FALSE,
             value |-> [repository |-> path.name,
                        path |-> path,
                        error |-> FALSE,
                        changes |-> walk.changes,
                        total_changes |-> Len(walk.changes),
                        current_version |->
                            IF cur.exists THEN effective_version(current_versions) ELSE None,
                        commits_analyzed |-> Len(repo.commits)]]

\* track_repo_version_changes(repo_path, ...): [raised, value]
track_repo_version_changes(path, repo) ==
    LET walk == walk_commits(path.name, repo.commits, Len(repo.commits))
        cur == repo.current
        current_versions == extract_component_versions(cur.doc)
    IN IF ~repo.log_ok \/ walk.status = "error"
       THEN [raised |-> FALSE, value |-> error_entry(path)]
       ELSE IF walk.status = "raised"
                 \/ (cur.exists /\ (~cur.json \/ current_versions.raised))
       THEN [raised |-> TRUE, value |-> error_entry(path)]
       ELSE [raised |-> FALSE,
             value |-> [repository |-> path.name,
                        path |-> path,
                        error |-> FALSE,
                        changes |-> walk.changes,
                        total_changes |-> Len(walk.changes),
                        current_version |->
                            IF cur.exists THEN effective_version(current_versions) ELSE None,
                        commits_analyzed |-> Len(repo.commits)]]

\* `self.repo_results[key] = value`: a key already there keeps its place
dict_set(items, key, value) ==
    IF \E i \in 1..Len(items) : items[i].key = key
    THEN [i \in 1..Len(items) |->
             IF items[i].key = key THEN [key |-> key, value |-> value] ELSE items[i]]
    ELSE Append(items, [key |-> key, value |-> value])

\* a pool with a thread for every repository
max_workers_one_per_repo(repos) == Len(repos)

\* `min(4, len(repos))`
max_workers(repos) == IF PoolSize < Len(repos) THEN PoolSize ELSE Len(repos)

Tasks(state) == {i \in 1..Len(o_task) : o_task[i] = state}

OrchInit ==
    /\ o_repos \in RepoLists
    /\ o_parallel \in BOOLEAN
    /\ o_task = [i \in 1..Len(o_repos) |-> "pending"]
    /\ o_runs = [i \in 1..Len(o_repos) |-> 0]
    /\ o_repo_results = <<>>
    /\ o_patterns = [present |-> FALSE]
    /\ o_csv = <<>>
    /\ o_pc = "start"
    /\ ResolveIdle
    /\ TrackIdle
    /\ AdoptIdle
    /\ SkipIdle
    /\ DashIdle
    /\ MainIdle
    /\ TwiceIdle
    /\ UpdateIdle

\* process_repositories up to its branch: the pool is created and every
\* repository submitted, or the sequential loop is entered
ProcessRepositories ==
    /\ o_pc = "start"
    /\ o_pc' = IF o_parallel /\ Len(o_repos) > 1 THEN "pool" ELSE "seq"
    /\ UNCHANGED <<o_repos, o_parallel, o_task, o_runs, o_repo_results, o_patterns, o_csv>>
    /\ UNCHANGED orchOthers

\* a worker thread takes the oldest submitted call off the queue
TaskStart(i) ==
    /\ o_pc \in {"pool", "unwinding"}
    /\ o_task[i] = "pending"
    /\ \A j \in 1..(i - 1) : o_task[j] # "pending"
    /\ Cardinality(Tasks("running")) < max_workers(o_repos)
    /\ o_task' = [o_task EXCEPT ![i] = "running"]
    /\ o_runs' = [o_runs EXCEPT ![i] = @ + 1]
    /\ UNCHANGED <<o_repos, o_parallel, o_repo_results, o_patterns, o_csv, o_pc>>
    /\ UNCHANGED orchOthers

\* its track_repo_version_changes call ends: the future holds the value
\* returned or the exception raised
TaskFinish(i) ==
    /\ o_pc \in {"pool", "unwinding"}
    /\ o_task[i] = "running"
    /\ o_task' = [o_task EXCEPT ![i] = "done"]
    /\ UNCHANGED <<o_repos, o_parallel, o_runs, o_repo_results, o_patterns, o_csv, o_pc>>
    /\ UNCHANGED orchOthers

\* one iteration of `for future in as_completed(futures)`: future.result()
\* returns the value, which is stored under result["repository"], or raises
\* the task's exception, which leaves the loop and the `with` block
MergeResult(i) ==
    /\ o_pc = "pool"
    /\ o_task[i] = "done"
    /\ LET result == track_repo_version_changes(o_repos[i].path, o_repos[i].repo)
       IN IF result.raised
          THEN /\ o_pc' = "unwinding"
               /\ UNCHANGED <<o_task, o_repo_results>>
          ELSE /\ o_repo_results' =
                      dict_set(o_repo_results, result.value.repository, result.value)
               /\ o_task' = [o_task EXCEPT ![i] = "merged"]
               /\ UNCHANGED o_pc
    /\ UNCHANGED <<o_repos, o_parallel, o_runs, o_patterns, o_csv>>
    /\ UNCHANGED orchOthers

\* the executor's __exit__ (shutdown(wait=True)) has waited for every call,
\* queued ones included; the exception leaves process_repositories
PoolUnwind ==
    /\ o_pc = "unwinding"
    /\ Tasks("pending") = {} /\ Tasks("running") = {}
    /\ o_pc' = "raised"
    /\ UNCHANGED <<o_repos, o_parallel, o_task, o_runs, o_repo_results, o_patterns, o_csv>>
    /\ UNCHANGED orchOthers

\* one iteration of the sequential loop `for repo in repos`
SequentialStep(i) ==
    /\ o_pc = "seq"
    /\ o_task[i] = "pending"
    /\ \A j \in 1..(i - 1) : o_task[j] # "pending"
    /\ o_runs' = [o_runs EXCEPT ![i] = @ + 1]
    /\ LET result == track_repo_version_changes(o_repos[i].path, o_repos[i].repo)
       IN IF result.raised
          THEN /\ o_pc' = "raised"
               /\ o_task' = [o_task EXCEPT ![i] = "done"]
               /\ UNCHANGED o_repo_results
          ELSE /\ o_repo_results' =
                      dict_set(o_repo_results, result.value.repository, result.value)
               /\ o_task' = [o_task EXCEPT ![i] = "merged"]
               /\ UNCHANGED o_pc
    /\ UNCHANGED <<o_repos, o_parallel, o_patterns, o_csv>>
    /\ UNCHANGED orchOthers

\* the loop is exhausted (and the pool shut down): process_repositories returns
ProcessReturn ==
    /\ o_pc \in {"pool", "seq"}
    /\ \A i \in 1..Len(o_task) : o_task[i] = "merged"
    /\ o_pc' = "returned"
    /\ UNCHANGED <<o_repos, o_parallel, o_task, o_runs, o_repo_results, o_patterns, o_csv>>
    /\ UNCHANGED orchOthers

\* MultiRepoVersionTracker.parse_version: (0, 0, 0) for a falsy value, else
\* the analyzer's parse after the range prefix is removed
parse_version_multi(version_str) ==
    IF ~Truthy(version_str) THEN <<0, 0, 0>>
    ELSE parse_version(lstrip(version_str.s, RangePrefix))

\* the values of repo_results that analyze_adoption_patterns does not skip
RECURSIVE healthy_results(_)
healthy_results(items) ==
    IF items = <<>> THEN <<>>
    ELSE (IF Head(items).value.error THEN <<>> ELSE <<Head(items).value>>)
            \o healthy_results(Tail(items))

\* the changes visited by the nested loops, in the order visited
RECURSIVE visited_changes(_)
visited_changes(results) ==
    IF results = <<>> THEN <<>>
    ELSE Head(results).changes \o visited_changes(Tail(results))

\* current_versions: repository -> current version, where it is truthy
RECURSIVE current_versions_of(_)
current_versions_of(results) ==
    IF results = <<>> THEN <<>>
    ELSE LET before == current_versions_of(SubSeq(results, 1, Len(results) - 1))
             r == results[Len(results)]
         IN IF Truthy(r.current_version)
            THEN dict_set(before, r.repository, r.current_version)
            ELSE before

KeyIndex(items, key) ==
    IF \E i \in 1..Len(items) : items[i].key = key
    THEN CHOOSE i \in 1..Len(items) : items[i].key = key
    ELSE 0

\* version_dates after the given changes: version -> first_seen, last_seen,
\* first_repo, repos
RECURSIVE version_dates(_)
version_dates(changes) ==
    IF changes = <<>> THEN <<>>
    ELSE LET before == version_dates(SubSeq(changes, 1, Len(changes) - 1))
             change == changes[Len(changes)]
             version == change.effective_version
             date == parse_git_date(change.date)
             at == KeyIndex(before, version)
         IN IF ~Truthy(version) THEN before
            ELSE IF at = 0
            THEN Append(before, [key |-> version,
                                 value |-> [first_seen |-> date,
                                            last_seen |-> date,
                                            first_repo |-> change.repository,
                                            repos |-> {change.repository}]])
            ELSE LET old == before[at].value
                 IN [before EXCEPT ![at].value =
                        [first_seen |-> IF date < old.first_seen THEN date ELSE old.first_seen,
                         last_seen |-> IF date > old.last_seen THEN date ELSE old.last_seen,
                         first_repo |-> IF date < old.first_seen THEN change.repository
                                        ELSE old.first_repo,
                         repos |-> old.repos \cup {change.repository}]]

\* sorted(version_dates.items(), key=first_seen): a stable sort
RECURSIVE InsertByFirstSeen(_, _)
InsertByFirstSeen(sorted, x) ==
    IF sorted = <<>> THEN <<x>>
    ELSE IF x.value.first_seen < Head(sorted).value.first_seen THEN <<x>> \o sorted
    ELSE <<Head(sorted)>> \o InsertByFirstSeen(Tail(sorted), x)

RECURSIVE SortByFirstSeen(_)
SortByFirstSeen(items) ==
    IF items = <<>> THEN <<>>
    ELSE InsertByFirstSeen(SortByFirstSeen(SubSeq(items, 1, Len(items) - 1)),
                           items[Len(items)])

version_timeline(dates) ==
    LET sorted == SortByFirstSeen(dates)
    IN [i \in 1..Len(sorted) |->
           [key |-> sorted[i].key,
            value |-> [first_seen |-> sorted[i].value.first_seen,
                       first_repo |-> sorted[i].value.first_repo,
                       total_repos |-> Cardinality(sorted[i].value.repos),
                       repos |-> sorted[i].value.repos]]]

\* version_counts: version -> number of repositories now on it
RECURSIVE version_counts(_)
version_counts(current_versions) ==
    IF current_versions = <<>> THEN <<>>
    ELSE LET before == version_counts(SubSeq(current_versions, 1, Len(current_versions) - 1))
             version == current_versions[Len(current_versions)].value
             at == KeyIndex(before, version)
         IN dict_set(before, version, IF at = 0 THEN 1 ELSE before[at].value + 1)

\* max(version_counts.keys(), key=self.parse_version): the first of the
\* keys with the largest parsed version
latest_version(counts) ==
    LET best == CHOOSE i \in 1..Len(counts) :
                    /\ \A j \in 1..Len(counts) :
                          ~TupleLess(parse_version_multi(counts[i].key),
                                     parse_version_multi(counts[j].key))
                    /\ \A j \in 1..(i - 1) :
                          TupleLess(parse_version_multi(counts[j].key),
                                    parse_version_multi(counts[i].key))
    IN counts[best].key

RECURSIVE laggards(_, _)
laggards(current_versions, latest) ==
    IF current_versions = <<>> THEN <<>>
    ELSE (IF Head(current_versions).value # latest
          THEN <<[repository |-> Head(current_versions).key,
                  current_version |-> Head(current_versions).value,
                  latest_version |-> latest]>>
          ELSE <<>>)
            \o laggards(Tail(current_versions), latest)

\* adoption_speed with an entry for every version, whatever the number of
\* repositories
RECURSIVE adoption_speed_every_version(_)
adoption_speed_every_version(dates) ==
    IF dates = <<>> THEN <<>>
    ELSE <<[key |-> Head(dates).key,
            value |-> [days_to_adoption |->
                          Days(Head(dates).value.last_seen - Head(dates).value.first_seen),
                       repos_adopted |-> Cardinality(Head(dates).value.repos)]]>>
            \o adoption_speed_every_version(Tail(dates))

RECURSIVE adoption_speed(_)
adoption_speed(dates) ==
    IF dates = <<>> THEN <<>>
    ELSE (IF Cardinality(Head(dates).value.repos) > 1
          THEN <<[key |-> Head(dates).key,
                  value |-> [days_to_adoption |->
                                Days(Head(dates).value.last_seen - Head(dates).value.first_seen),
                             repos_adopted |-> Cardinality(Head(dates).value.repos)]]>>
          ELSE <<>>)
            \o adoption_speed(Tail(dates))

\* analyze_adoption_patterns over repo_results; the dicts it returns are
\* given as sets of items, the lists as sequences
analyze_adoption_patterns(repo_results) ==
    LET results == healthy_results(repo_results)
        current_versions == current_versions_of(results)
        dates == version_dates(visited_changes(results))
        counts == version_counts(current_versions)
        timeline == version_timeline(dates)
        speed == adoption_speed(dates)
    IN [present |-> TRUE,
        version_timeline |-> timeline,
        adoption_speed |-> {speed[i] : i \in 1..Len(speed)},
        version_distribution |-> {counts[i] : i \in 1..Len(counts)},
        has_latest |-> counts # <<>>,
        latest_version |-> IF counts # <<>> THEN latest_version(counts) ELSE None,
        laggards |-> IF counts # <<>>
                     THEN laggards(current_versions, latest_version(counts))
                     ELSE <<>>]

\* the row export_to_csv writes for a change
csv_row(change) ==
    [repository |-> change.repository,
     date |-> change.date,
     commit |-> change.commit,
     previous_version |-> change.previous_effective,
     new_version |-> change.effective_version,
     version_type |-> IF Truthy(change.override_version) THEN "override"
                      ELSE IF change.transitive_overrides # <<>> THEN "transitive"
                      ELSE "direct"]

\* the rows in the order written: repo_results.values(), then each result's changes
RECURSIVE csv_rows(_)
csv_rows(items) ==
    IF items = <<>> THEN <<>>
    ELSE [j \in 1..Len(Head(items).value.changes) |-> csv_row(Head(items).value.changes[j])]
            \o csv_rows(Tail(items))

\* patterns = tracker.analyze_adoption_patterns()
AnalyzeAdoptionPatterns ==
    /\ o_pc = "returned"
    /\ o_patterns' = analyze_adoption_patterns(o_repo_results)
    /\ o_pc' = "analyzed"
    /\ UNCHANGED <<o_repos, o_parallel, o_task, o_runs, o_repo_results, o_csv>>
    /\ UNCHANGED orchOthers

\* tracker.export_to_csv()
ExportToCsv ==
    /\ o_pc = "analyzed"
    /\ o_csv' = csv_rows(o_repo_results)
    /\ o_pc' = "exported"
    /\ UNCHANGED <<o_repos, o_parallel, o_task, o_runs, o_repo_results, o_patterns>>
    /\ UNCHANGED orchOthers

OrchNext ==
    \/ ProcessRepositories
    \/ \E i \in 1..Len(o_task) : TaskStart(i)
    \/ \E i \in 1..Len(o_task) : TaskFinish(i)
    \/ \E i \in 1..Len(o_task) : MergeResult(i)
    \/ PoolUnwind
    \/ \E i \in 1..Len(o_task) : SequentialStep(i)
    \/ ProcessReturn
    \/ AnalyzeAdoptionPatterns
    \/ ExportToCsv

SpecOrch == OrchInit /\ [][OrchNext]_vars

\* ---- the run seen from outside ----
ResultOf(i) == track_repo_version_changes(o_repos[i].path, o_repos[i].repo)

NamesDistinct ==
    \A i, j \in 1..Len(o_repos) : i # j => o_repos[i].path.name # o_repos[j].path.name

\* repo_results after the sequential loop over the first k repositories
RECURSIVE sequential_results(_)
sequential_results(k) ==
    IF k = 0 THEN <<>>
    ELSE dict_set(sequential_results(k - 1), ResultOf(k).value.repository, ResultOf(k).value)

Items(dict) == {dict[i] : i \in 1..Len(dict)}

Returned == o_pc \in {"returned", "analyzed", "exported"}

\* C13: after process_repositories, repo_results holds one entry per
\* repository of the input list (distinct resolved paths), each repository's
\* own result, none overwritten by another's.
C13_OneEntryPerRepository ==
    Returned =>
        /\ Len(o_repo_results) = Len(o_repos)
        /\ \A i \in 1..Len(o_repos) :
              \E j \in 1..Len(o_repo_results) : o_repo_results[j].value = ResultOf(i).value

\* what the code does for C13: the key is repo_path.name, so the entries are
\* one per repository exactly when the last path components are distinct
C13_AsImplemented ==
    Returned =>
        /\ Len(o_repo_results)
              = Cardinality({o_repos[i].path.name : i \in 1..Len(o_repos)})
        /\ NamesDistinct =>
              \A i \in 1..Len(o_repos) :
                  \E j \in 1..Len(o_repo_results) :
                      /\ o_repo_results[j].key = o_repos[i].path.name
                      /\ o_repo_results[j].value = ResultOf(i).value

\* C14: a parallel run, whatever the completion order, ends with the
\* mapping the sequential run over the same list ends with: the same keys,
\* the same value under each key.
C14_ParallelEqualsSequential ==
    (Returned /\ o_parallel) =>
        Items(o_repo_results) = Items(sequential_results(Len(o_repos)))

\* what the code does for C14: the two agree when no two repositories
\* share their last path component
C14_AsImplemented ==
    (Returned /\ NamesDistinct) =>
        Items(o_repo_results) = Items(sequential_results(Len(o_repos)))

\* C15: whatever step fails for a repository, process_repositories
\* completes; the failing repository is recorded as an error entry with no
\* changes and every other repository's result is in repo_results.
C15_FailureNeverAborts ==
    /\ o_pc \notin {"unwinding", "raised"}
    /\ (Returned /\ NamesDistinct) =>
          \A i \in 1..Len(o_repos) :
              \E j \in 1..Len(o_repo_results) :
                  /\ o_repo_results[j].key = o_repos[i].path.name
                  /\ (~o_repos[i].repo.log_ok \/ \E k \in 1..Len(o_repos[i].repo.commits) :
                                                     ~o_repos[i].repo.commits[k].info_ok)
                        => (o_repo_results[j].value.error
                            /\ o_repo_results[j].value.changes = <<>>)

\* what the code does for C15: the run is aborted exactly by a repository
\* whose failure is not a CalledProcessError
C15_AsImplemented ==
    /\ o_pc \in {"unwinding", "raised"} => \E i \in 1..Len(o_repos) : ResultOf(i).raised
    /\ (o_pc \in {"pool", "seq"} /\ \A i \in 1..Len(o_repos) : o_task[i] = "merged")
          => \A i \in 1..Len(o_repos) : ~ResultOf(i).raised
    /\ (Returned /\ NamesDistinct) =>
          \A i \in 1..Len(o_repos) :
              \E j \in 1..Len(o_repo_results) :
                  /\ o_repo_results[j].key = o_repos[i].path.name
                  /\ ~o_repos[i].repo.log_ok
                        => (o_repo_results[j].value.error
                            /\ o_repo_results[j].value.changes = <<>>)

\* C19: whatever order the results were inserted in, analyze_adoption_patterns
\* returns the same patterns (first_repo of each version and the latest
\* version included) and export_to_csv writes the same rows in the same
\* order: those of the run that inserts in list order.
C19_OutputsIndependentOfOrder ==
    NamesDistinct =>
        /\ o_pc \in {"analyzed", "exported"} =>
              o_patterns = analyze_adoption_patterns(sequential_results(Len(o_repos)))
        /\ o_pc = "exported" => o_csv = csv_rows(sequential_results(Len(o_repos)))

\* the parts of C19, one by one
FirstRepoIndependentOfOrder ==
    (NamesDistinct /\ o_pc \in {"analyzed", "exported"}) =>
        o_patterns.version_timeline
            = analyze_adoption_patterns(sequential_results(Len(o_repos))).version_timeline

LatestVersionIndependentOfOrder ==
    (NamesDistinct /\ o_pc \in {"analyzed", "exported"}) =>
        o_patterns.latest_version
            = analyze_adoption_patterns(sequential_results(Len(o_repos))).latest_version

CsvOrderIndependentOfOrder ==
    (NamesDistinct /\ o_pc = "exported") => o_csv = csv_rows(sequential_results(Len(o_repos)))

\* what the code does for C19: the rows and the counts are the same up to order
C19_AsImplemented ==
    NamesDistinct =>
        /\ o_pc \in {"analyzed", "exported"} =>
              LET ref == analyze_adoption_patterns(sequential_results(Len(o_repos)))
              IN /\ o_patterns.version_distribution = ref.version_distribution
                 /\ o_patterns.adoption_speed = ref.adoption_speed
                 /\ {o_patterns.version_timeline[i].key :
                        i \in 1..Len(o_patterns.version_timeline)}
                      = {ref.version_timeline[i].key : i \in 1..Len(ref.version_timeline)}
        /\ o_pc = "exported" =>
              /\ Len(o_csv) = Len(csv_rows(sequential_results(Len(o_repos))))
              /\ Items(o_csv) = Items(csv_rows(sequential_results(Len(o_repos))))

\* C20: in parallel mode at most min(4, number of repositories) calls of
\* track_repo_version_changes run at once, every repository is processed
\* exactly once, and process_repositories returns only when every call has
\* finished and its result has been stored.
C20_BoundedPoolProcessesEachOnce ==
    (o_parallel /\ Len(o_repos) > 1) =>
        /\ Cardinality(Tasks("running")) <= 4
        /\ Cardinality(Tasks("running")) <= Len(o_repos)
        /\ \A i \in 1..Len(o_repos) : o_runs[i] = IF o_task[i] = "pending" THEN 0 ELSE 1
        /\ Returned =>
              \A i \in 1..Len(o_repos) :
                  /\ o_task[i] = "merged"
                  /\ o_runs[i] = 1
                  /\ \E j \in 1..Len(o_repo_results) :
                        o_repo_results[j].key = o_repos[i].path.name
        /\ \A i \in 1..Len(o_repos) :
              o_task[i] = "merged" =>
                  \E j \in 1..Len(o_repo_results) : o_repo_results[j].key = o_repos[i].path.name

\* C20's case: five repositories, four calls running, the fifth queued
C20_Witness ==
    /\ o_parallel
    /\ Len(o_repos) = 5
    /\ o_pc = "pool"
    /\ Cardinality(Tasks("running")) = 4
    /\ o_task[5] = "pending"

\* five repositories processed in the pool and all merged
C20_AllMerged ==
    /\ o_parallel
    /\ Len(o_repos) = 5
    /\ o_pc = "returned"
    /\ Len(o_repo_results) = 5

\* ---- the patterns seen from outside ----
Analyzed == o_pc \in {"analyzed", "exported"}

\* the repositories with no error and a known current version
KnownCurrent ==
    {[repository |-> x.value.repository, version |-> x.value.current_version] :
        x \in {y \in Items(o_repo_results) :
                  ~y.value.error /\ Truthy(y.value.current_version)}}

GreatestTriple(version) ==
    \A k \in KnownCurrent :
        ~TupleLess(parse_version_multi(version), parse_version_multi(k.version))

LaggardSet ==
    {[repository |-> o_patterns.laggards[i].repository,
      version |-> o_patterns.laggards[i].current_version] :
        i \in 1..Len(o_patterns.laggards)}

\* C21: the latest version is a currently observed version with the
\* greatest (major, minor, patch) triple, the laggards are exactly the
\* repositories with a known current version (and no error) that is not the
\* latest, and no repository whose current version has the greatest triple
\* is a laggard.
C21_LatestAndLaggards ==
    (Analyzed /\ KnownCurrent # {}) =>
        /\ o_patterns.latest_version \in {k.version : k \in KnownCurrent}
        /\ GreatestTriple(o_patterns.latest_version)
        /\ LaggardSet = {k \in KnownCurrent : k.version # o_patterns.latest_version}
        /\ \A k \in LaggardSet : ~GreatestTriple(k.version)

\* what the code does for C21: the laggards are compared as strings, so a
\* repository on "1.2.0" is a laggard when the latest is "^1.2.0"
C21_AsImplemented ==
    (Analyzed /\ KnownCurrent # {}) =>
        /\ o_patterns.latest_version \in {k.version : k \in KnownCurrent}
        /\ GreatestTriple(o_patterns.latest_version)
        /\ LaggardSet = {k \in KnownCurrent : k.version # o_patterns.latest_version}
        /\ \A k \in LaggardSet :
              GreatestTriple(k.version) =>
                  /\ k.version # o_patterns.latest_version
                  /\ parse_version_multi(k.version)
                        = parse_version_multi(o_patterns.latest_version)

\* a laggard whose current version has the greatest triple
C21_LaggardOnLatestTriple ==
    /\ Analyzed
    /\ \E k \in LaggardSet : GreatestTriple(k.version)

\* the change records of the repositories with no error that name a version
VersionRecords ==
    UNION {{x.value.changes[i] : i \in 1..Len(x.value.changes)} :
              x \in {y \in Items(o_repo_results) : ~y.value.error}}

RecordsOf(version) == {r \in VersionRecords : r.effective_version = version}

RecordedVersions == {r.effective_version : r \in {q \in VersionRecords : Truthy(q.effective_version)}}

EarliestDate(version) ==
    CHOOSE d \in {parse_git_date(r.date) : r \in RecordsOf(version)} :
        \A r \in RecordsOf(version) : d <= parse_git_date(r.date)

LatestDate(version) ==
    CHOOSE d \in {parse_git_date(r.date) : r \in RecordsOf(version)} :
        \A r \in RecordsOf(version) : d >= parse_git_date(r.date)

\* C22: adoption_speed has an entry for a version exactly when the change
\* records for it come from more than one repository; its days_to_adoption
\* is the number of days between the earliest and the latest date of those
\* records, and is never negative.
C22_AdoptionSpeed ==
    Analyzed =>
        /\ {e.key : e \in o_patterns.adoption_speed}
              = {v \in RecordedVersions :
                    Cardinality({r.repository : r \in RecordsOf(v)}) > 1}
        /\ \A e \in o_patterns.adoption_speed :
              /\ e.value.days_to_adoption = Days(LatestDate(e.key) - EarliestDate(e.key))
              /\ e.value.days_to_adoption >= 0
              /\ e.value.repos_adopted = Cardinality({r.repository : r \in RecordsOf(e.key)})

\* C22's case: a version whose records come from two repositories, the
\* later-inserted repository holding the earlier record, three days apart
C22_Witness ==
    /\ Analyzed
    /\ \E e \in o_patterns.adoption_speed : e.value.days_to_adoption = 3
    /\ \E e \in o_patterns.adoption_speed : e.value.days_to_adoption = 0
    /\ \E i, j \in 1..Len(o_repo_results) :
          /\ i < j
          /\ ~o_repo_results[i].value.error /\ ~o_repo_results[j].value.error
          /\ \E a \in 1..Len(o_repo_results[i].value.changes),
                b \in 1..Len(o_repo_results[j].value.changes) :
                /\ o_repo_results[i].value.changes[a].effective_version
                      = o_repo_results[j].value.changes[b].effective_version
                /\ parse_git_date(o_repo_results[j].value.changes[b].date)
                      < parse_git_date(o_repo_results[i].value.changes[a].date)

\* a version recorded by one repository only, beside one recorded by two
C22_SingleRepositoryVersion ==
    /\ Analyzed
    /\ o_patterns.adoption_speed # {}
    /\ \E v \in RecordedVersions : Cardinality({r.repository : r \in RecordsOf(v)}) = 1

(***************************************************************************)
(* SpecFailures: a run of either tool, the multi-repository tracker or the *)
(* adoption analyzer, for what both do with a repository that failed.      *)
(***************************************************************************)
FailuresInit == OrchInit \/ AdoptInit

FailuresNext == OrchNext \/ AdoptNext

SpecFailures == FailuresInit /\ [][FailuresNext]_vars

\* `git log` or `git show -s` fails for the i-th repository of the list
ProcessingFailed(i) ==
    \/ ~o_repos[i].repo.log_ok
    \/ \E k \in 1..Len(o_repos[i].repo.commits) : ~o_repos[i].repo.commits[k].info_ok

\* the repository names the patterns mention
MentionedRepositories ==
    UNION {o_patterns.version_timeline[i].value.repos :
              i \in 1..Len(o_patterns.version_timeline)}
    \cup {o_patterns.version_timeline[i].value.first_repo :
              i \in 1..Len(o_patterns.version_timeline)}
    \cup {o_patterns.laggards[i].repository : i \in 1..Len(o_patterns.laggards)}

\* the sum of the counts of version_distribution
RECURSIVE DistributionTotal(_)
DistributionTotal(counts) ==
    IF counts = {} THEN 0
    ELSE LET c == CHOOSE x \in counts : TRUE
         IN c.value + DistributionTotal(counts \ {c})

\* C23: a repository whose processing failed is left out of what is derived
\* later.  Tracker: its repo_results entry carries the error, and neither it
\* nor its records are in version_timeline, version_distribution, laggards
\* or adoption_speed.  Analyzer: a repository that is not there, or whose
\* `git log` failed, has no entry in repo_adoptions and none in the metrics.
C23_FailedRepositoryExcluded ==
    /\ (Analyzed /\ NamesDistinct) =>
          /\ \A i \in 1..Len(o_repos) :
                ProcessingFailed(i) =>
                    /\ \E x \in Items(o_repo_results) :
                          x.key = o_repos[i].path.name /\ x.value.error
                    /\ o_repos[i].path.name \notin MentionedRepositories
          /\ DistributionTotal(o_patterns.version_distribution) = Cardinality(KnownCurrent)
          /\ \A e \in o_patterns.adoption_speed :
                e.value.repos_adopted = Cardinality({r.repository : r \in RecordsOf(e.key)})
          /\ \A i \in 1..Len(o_patterns.version_timeline) :
                o_patterns.version_timeline[i].value.repos
                    = {r.repository : r \in RecordsOf(o_patterns.version_timeline[i].key)}
    /\ a_pc \in {"failed", "missing"} => ~a_repo_adoptions.present
    /\ a_metrics.present => a_repo_adoptions.present
    /\ ~a_repo_adoptions.present => a_dashboard = <<>>

\* C23's case in the tracker: a repository whose `git show -s` failed after
\* a first change was found, beside repositories that gave patterns
C23_Witness ==
    /\ Analyzed /\ NamesDistinct
    /\ \E i \in 1..Len(o_repos) :
          /\ o_repos[i].repo.log_ok
          /\ ProcessingFailed(i)
          /\ walk_commits(o_repos[i].path.name, o_repos[i].repo.commits,
                          Len(o_repos[i].repo.commits)).changes # <<>>
    /\ Len(o_patterns.version_timeline) > 0
    /\ o_patterns.has_latest

\* a repository whose `git log` failed, beside one that gave patterns
C23_LogFailedBesideHealthy ==
    /\ Analyzed /\ NamesDistinct
    /\ \E i \in 1..Len(o_repos) : ~o_repos[i].repo.log_ok
    /\ Len(o_patterns.version_timeline) > 0

\* C23's cases in the analyzer
C23_LogFailedNoMetrics ==
    /\ a_pc = "done" /\ a_n = 0 /\ ~a_repo_adoptions.present /\ ~a_metrics.present

C23_MissingRepositorySkipped ==
    /\ a_pc = "missing" /\ ~a_repo_adoptions.present

(***************************************************************************)
(* SpecTwice: the change detector called twice on the same object over the *)
(* same commit sequence of a repository: track_repo_version_changes of the *)
(* tracker, get_repo_adoptions of the analyzer.                            *)
(***************************************************************************)
MaxTwiceCommits == 3

\* the manifests of the commits, the last one with a `git show -s` that fails
TwiceCommitKinds ==
    {Commit(c, GitDate(0, 0), TRUE) :
        c \in {Unreadable,
               Readable(Doc(TRUE, Missing, Missing, PnpmMissing)),
               DepOnly(v100), DepOnly(c120), DepOnly(v120),
               Readable(Doc(TRUE, NonMap("null"), Missing, PnpmMissing))}}
    \cup {Commit(DepOnly(v200), GitDate(0, 0), FALSE)}

\* commit sequences, the k-th commit made on day k
TwiceCommits ==
    UNION {{[k \in 1..n |-> [kinds[k] EXCEPT !.date = GitDate(Midnight(k), 0)]] :
               kinds \in [1..n -> TwiceCommitKinds]} : n \in 0..MaxTwiceCommits}

TwiceInit ==
    /\ w_kind \in {"track", "adopt"}
    /\ \E log_ok \in BOOLEAN, commits \in TwiceCommits :
          w_repo = Repository(log_ok, commits, CurrentFile(v100))
    /\ w_first = [present |-> FALSE]
    /\ w_second = [present |-> FALSE]
    /\ w_repo_adoptions = [present |-> FALSE, adoptions |-> <<>>]
    /\ w_pc = "start"
    /\ ResolveIdle
    /\ TrackIdle
    /\ AdoptIdle
    /\ SkipIdle
    /\ OrchIdle
    /\ DashIdle
    /\ MainIdle
    /\ UpdateIdle

\* a call that goes on from what the last call left in repo_adoptions
call_start_resuming(entry) ==
    [status |-> "ok",
     last_version |-> IF entry.adoptions = <<>> THEN None
                      ELSE Str(entry.adoptions[Len(entry.adoptions)].raw_version),
     adoptions |-> entry.adoptions]

\* `adoptions = []`, `last_version = None`: the locals a call of
\* get_repo_adoptions starts from, whatever repo_adoptions holds
call_start(entry) == [status |-> "ok", last_version |-> None, adoptions |-> <<>>]

\* the loop `for commit_line in commits` after its first k iterations
RECURSIVE walk_adoptions(_, _, _)
walk_adoptions(commits, start, k) ==
    IF k = 0 THEN start
    ELSE LET before == walk_adoptions(commits, start, k - 1)
             c == commits[k]
             got == version_at_commit(c)
         IN IF before.status # "ok" THEN before
            ELSE IF got.raised THEN [before EXCEPT !.status = "raised"]
            ELSE IF IsNewVersion(got.version, before.last_version)
            THEN [status |-> "ok",
                  last_version |-> got.version,
                  adoptions |-> Append(before.adoptions,
                                       adoption(k, got.version, parse_git_date(c.date)))]
            ELSE before

\* get_repo_adoptions(repo_path): what it returns and the repository's entry
\* of self.repo_adoptions after it
get_repo_adoptions(repo, entry) ==
    LET walk == walk_adoptions(repo.commits, call_start(entry), Len(repo.commits))
    IN IF ~repo.log_ok THEN [present |-> TRUE, raised |-> FALSE, value |-> <<>>, entry |-> entry]
       ELSE IF walk.status = "raised"
       THEN [present |-> TRUE, raised |-> TRUE, value |-> <<>>, entry |-> entry]
       ELSE [present |-> TRUE, raised |-> FALSE, value |-> walk.adoptions,
             entry |-> [present |-> TRUE, adoptions |-> walk.adoptions]]

TwicePath == [dir |-> 1, name |-> 1]

\* one call of the detector: [present, raised, value, entry]
detector_call(kind, repo, entry) ==
    IF kind = "adopt" THEN get_repo_adoptions(repo, entry)
    ELSE LET got == track_repo_version_changes(TwicePath, repo)
         IN [present |-> TRUE, raised |-> got.raised,
             value |-> IF got.raised THEN <<>> ELSE got.value, entry |-> entry]

FirstCall ==
    /\ w_pc = "start"
    /\ LET got == detector_call(w_kind, w_repo, w_repo_adoptions)
       IN /\ w_first' = [present |-> TRUE, raised |-> got.raised, value |-> got.value]
          /\ w_repo_adoptions' = got.entry
    /\ w_pc' = "once"
    /\ UNCHANGED <<w_kind, w_repo, w_second>>
    /\ UNCHANGED twiceOthers

SecondCall ==
    /\ w_pc = "once"
    /\ LET got == detector_call(w_kind, w_repo, w_repo_adoptions)
       IN /\ w_second' = [present |-> TRUE, raised |-> got.raised, value |-> got.value]
          /\ w_repo_adoptions' = got.entry
    /\ w_pc' = "twice"
    /\ UNCHANGED <<w_kind, w_repo, w_first>>
    /\ UNCHANGED twiceOthers

TwiceNext ==
    \/ FirstCall
    \/ SecondCall

SpecTwice == TwiceInit /\ [][TwiceNext]_vars

C25_TrackedTwice ==
    /\ w_pc = "twice"
    /\ w_kind = "track"
    /\ ~w_first.raised
    /\ ~w_first.value.error
    /\ Len(w_first.value.changes) >= 2

(***************************************************************************)
(* SpecMain: the exit status of each command-line script.  A main() that   *)
(* returns n ends the process with status n (sys.exit(main())); an         *)
(* exception nobody catches ends it with status 1.                         *)
(***************************************************************************)
UncaughtException == 1

\* track_component_versions: does `git log` succeed, are there changes
TrackComponentEnvs == [git_log_ok : BOOLEAN, changes : BOOLEAN]

\* track_versions_multi_repo: does get_repo_list find a repository, does
\* process_repositories raise
TrackMultiEnvs == [repos : BOOLEAN, run_raises : BOOLEAN]

\* extract_component_releases: is --repo a git repository, --use-commits,
\* do the tags / the package.json history give versions
ExtractEnvs ==
    [is_git_repo : BOOLEAN, use_commits : BOOLEAN, tag_versions : BOOLEAN,
     commit_versions : BOOLEAN]

\* analyze_adoption_patterns: is the release file there, does any of the
\* configured repositories exist, does every existing one answer `git log`
\* (get_repo_adoptions catches the failure and returns no adoptions)
AnalyzeEnvs == [releases_file : BOOLEAN, repos_exist : BOOLEAN, git_log_ok : BOOLEAN]

\* scripts/update: config.json, and how its two steps go
ConfigStates == {"missing", "not_json", "no_path", "path_missing", "not_a_directory", "ok"}

UpdateEnvs ==
    [config : ConfigStates, neptune_web : BOOLEAN, extract_ok : BOOLEAN,
     releases_file : BOOLEAN, analysis_ok : BOOLEAN]

ScriptEnvs(script) ==
    CASE script = "track_component_versions" -> TrackComponentEnvs
      [] script = "track_versions_multi_repo" -> TrackMultiEnvs
      [] script = "extract_component_releases" -> ExtractEnvs
      [] script = "analyze_adoption_patterns" -> AnalyzeEnvs
      [] script = "update" -> UpdateEnvs

Scripts ==
    {"track_component_versions", "track_versions_multi_repo", "extract_component_releases",
     "analyze_adoption_patterns", "update"}

MainInit ==
    /\ m_script \in Scripts
    /\ m_env \in ScriptEnvs(m_script)
    /\ m_exit = 0
    /\ m_pc = "start"
    /\ ResolveIdle
    /\ TrackIdle
    /\ AdoptIdle
    /\ SkipIdle
    /\ OrchIdle
    /\ DashIdle
    /\ TwiceIdle
    /\ UpdateIdle

\* track_component_versions.main: `return 0 if changes else 1`; the
\* CalledProcessError of `git log` is not caught
main_track_component_versions(env) ==
    IF ~env.git_log_ok THEN UncaughtException
    ELSE IF env.changes THEN 0 ELSE 1

\* track_versions_multi_repo.main
main_track_versions_multi_repo(env) ==
    IF ~env.repos THEN 1
    ELSE IF env.run_raises THEN UncaughtException
    ELSE 0

\* the `versions` extract_component_releases.main ends up with
extract_versions(env) ==
    IF env.use_commits THEN env.commit_versions
    ELSE IF env.tag_versions THEN TRUE ELSE env.commit_versions

\* extract_component_releases.main: 1 for the constructor's ValueError, else
\* 0, with or without versions
main_extract_component_releases(env) ==
    IF ~env.is_git_repo THEN 1
    ELSE IF extract_versions(env) THEN 0 ELSE 0

\* analyze_adoption_patterns.main: load_releases opens the file without a
\* try; the repositories that do not exist are skipped; `return 0`
main_analyze_adoption_patterns(env) ==
    IF ~env.releases_file THEN UncaughtException ELSE 0

\* get_code_base_path: FileNotFoundError or ValueError (JSONDecodeError is a
\* ValueError) unless the configuration is usable
config_error(env) == env.config # "ok"

\* an extraction step that never reports a failure
run_extract_releases_unchecked(env) == TRUE

run_extract_releases(env) == env.neptune_web /\ env.extract_ok

run_adoption_analysis(env) == env.releases_file /\ env.analysis_ok

\* scripts/update.main
main_update(env) ==
    IF config_error(env) THEN 1
    ELSE IF ~run_extract_releases(env) THEN 1
    ELSE IF ~run_adoption_analysis(env) THEN 1
    ELSE 0

MainTrackComponentVersions ==
    /\ m_pc = "start" /\ m_script = "track_component_versions"
    /\ m_exit' = main_track_component_versions(m_env)
    /\ m_pc' = "exited"
    /\ UNCHANGED <<m_script, m_env>>
    /\ UNCHANGED mainOthers

MainTrackVersionsMultiRepo ==
    /\ m_pc = "start" /\ m_script = "track_versions_multi_repo"
    /\ m_exit' = main_track_versions_multi_repo(m_env)
    /\ m_pc' = "exited"
    /\ UNCHANGED <<m_script, m_env>>
    /\ UNCHANGED mainOthers

MainExtractComponentReleases ==
    /\ m_pc = "start" /\ m_script = "extract_component_releases"
    /\ m_exit' = main_extract_component_releases(m_env)
    /\ m_pc' = "exited"
    /\ UNCHANGED <<m_script, m_env>>
    /\ UNCHANGED mainOthers

MainAnalyzeAdoptionPatterns ==
    /\ m_pc = "start" /\ m_script = "analyze_adoption_patterns"
    /\ m_exit' = main_analyze_adoption_patterns(m_env)
    /\ m_pc' = "exited"
    /\ UNCHANGED <<m_script, m_env>>
    /\ UNCHANGED mainOthers

MainUpdate ==
    /\ m_pc = "start" /\ m_script = "update"
    /\ m_exit' = main_update(m_env)
    /\ m_pc' = "exited"
    /\ UNCHANGED <<m_script, m_env>>
    /\ UNCHANGED mainOthers

MainNext ==
    \/ MainTrackComponentVersions
    \/ MainTrackVersionsMultiRepo
    \/ MainExtractComponentReleases
    \/ MainAnalyzeAdoptionPatterns
    \/ MainUpdate

SpecMain == MainInit /\ [][MainNext]_vars

\* the cases C16 names: a configuration failure or no data
NamedFailure ==
    CASE m_script = "track_component_versions" -> ~m_env.changes
      [] m_script = "track_versions_multi_repo" -> ~m_env.repos
      [] m_script = "extract_component_releases" ->
            ~m_env.is_git_repo
                \/ (IF m_env.use_commits THEN ~m_env.commit_versions
                    ELSE ~m_env.tag_versions /\ ~m_env.commit_versions)
      [] m_script = "analyze_adoption_patterns" ->
            ~m_env.releases_file \/ ~m_env.repos_exist
      [] m_script = "update" -> m_env.config # "ok"

\* every step of the script worked
Succeeded ==
    CASE m_script = "track_component_versions" -> m_env.git_log_ok /\ m_env.changes
      [] m_script = "track_versions_multi_repo" -> m_env.repos /\ ~m_env.run_raises
      [] m_script = "extract_component_releases" -> ~NamedFailure
      [] m_script = "analyze_adoption_patterns" -> ~NamedFailure
      [] m_script = "update" ->
            /\ m_env.config = "ok"
            /\ m_env.neptune_web /\ m_env.extract_ok
            /\ m_env.releases_file /\ m_env.analysis_ok

\* C16: each script exits with 0 on success and with 1 on the configuration
\* failures and no-data cases named for it: no changes, no valid
\* repositories, not a git repository or no versions, release file missing
\* or no configured repository present, configuration missing or invalid.
C16_ExitCodes ==
    m_pc = "exited" =>
        /\ NamedFailure => m_exit = 1
        /\ Succeeded => m_exit = 0

\* what the code does for C16: extract_component_releases exits with 0 when
\* it finds no version and analyze_adoption_patterns exits with 0 when none
\* of its repositories exists; every other named case is as stated
C16_AsImplemented ==
    m_pc = "exited" =>
        /\ Succeeded => m_exit = 0
        /\ (NamedFailure /\ m_script \notin {"extract_component_releases",
                                             "analyze_adoption_patterns"}) => m_exit = 1
        /\ m_script = "extract_component_releases" => m_exit = IF m_env.is_git_repo THEN 0 ELSE 1
        /\ m_script = "analyze_adoption_patterns" => m_exit = IF m_env.releases_file THEN 0 ELSE 1

(***************************************************************************)
(* SpecUpdate: scripts/update main: get_code_base_path, update_all_repos   *)
(* over REPO_NAMES with git_pull_repo command by command, then             *)
(* run_extract_releases and run_adoption_analysis.  A repository is its    *)
(* position in REPO_NAMES; position 1 stands for 'neptune-web'.            *)
(***************************************************************************)
MaxUpdateRepos == 2

NeptuneWeb == 1

UpdateRepo(exists, has_git, status_ok, dirty, symref_ok, checkout_ok, pull_ok) ==
    [exists |-> exists, has_git |-> has_git, status_ok |-> status_ok, dirty |-> dirty,
     symref_ok |-> symref_ok, checkout_ok |-> checkout_ok, pull_ok |-> pull_ok]

\* what may be found at code_base_path / repo_name: nothing, a directory
\* without .git, a working copy where one of the four commands fails, one
\* with uncommitted changes, one that pulls
UpdateRepoKinds ==
    { UpdateRepo(FALSE, FALSE, FALSE, FALSE, FALSE, FALSE, FALSE),
      UpdateRepo(TRUE, FALSE, FALSE, FALSE, FALSE, FALSE, FALSE),
      UpdateRepo(TRUE, TRUE, FALSE, FALSE, TRUE, TRUE, TRUE),
      UpdateRepo(TRUE, TRUE, TRUE, TRUE, TRUE, TRUE, TRUE),
      UpdateRepo(TRUE, TRUE, TRUE, FALSE, FALSE, TRUE, TRUE),
      UpdateRepo(TRUE, TRUE, TRUE, FALSE, TRUE, FALSE, TRUE),
      UpdateRepo(TRUE, TRUE, TRUE, FALSE, TRUE, TRUE, FALSE),
      UpdateRepo(TRUE, TRUE, TRUE, FALSE, TRUE, TRUE, TRUE) }

UpdateRunEnvs ==
    UNION {{[present |-> TRUE,
             config |-> config,
             repos |-> repos,
             neptune_web |-> repos[NeptuneWeb].exists,
             extract_ok |-> extract_ok,
             releases_file |-> releases_file,
             analysis_ok |-> analysis_ok] :
               config \in ConfigStates, repos \in [1..n -> UpdateRepoKinds],
               extract_ok \in BOOLEAN, releases_file \in BOOLEAN, analysis_ok \in BOOLEAN} :
           n \in 1..MaxUpdateRepos}

UpdateInit ==
    /\ u_env \in UpdateRunEnvs
    /\ u_i = 0
    /\ u_cmds = <<>>
    /\ u_results = [success |-> <<>>, failed |-> <<>>, skipped |-> <<>>]
    /\ u_trace = <<>>
    /\ u_exit = 0
    /\ u_pc = "start"
    /\ ResolveIdle
    /\ TrackIdle
    /\ AdoptIdle
    /\ SkipIdle
    /\ OrchIdle
    /\ DashIdle
    /\ MainIdle
    /\ TwiceIdle

\* a loop that skips only the directories that are not there
not_a_checkout_missing_only(repo) == ~repo.exists

\* `if not repo_path.exists()` / `if not (repo_path / '.git').exists()`
not_a_checkout(repo) == ~repo.exists \/ ~repo.has_git

\* a pull that does not look at the status output
uncommitted_changes_ignored(repo) == FALSE

\* `if status_result.stdout.strip():`
uncommitted_changes(repo) == repo.dirty

CurrentRepo == u_env.repos[u_i]

InLoop == u_pc = "repos" /\ u_i \in 1..Len(u_env.repos)

Ran(cmd) == Append(u_cmds, [repo |-> u_i, cmd |-> cmd])

\* git_pull_repo returned False: `results['failed'].append(repo_name)`
PullFailed ==
    /\ u_results' = [u_results EXCEPT !.failed = Append(@, u_i)]
    /\ u_i' = u_i + 1
    /\ u_pc' = "repos"

\* main up to the call of update_all_repos
UpdateStart ==
    /\ u_pc = "start"
    /\ IF config_error(u_env)
       THEN /\ u_exit' = 1
            /\ u_pc' = "exited"
            /\ UNCHANGED <<u_i, u_trace>>
       ELSE /\ u_trace' = Append(u_trace, "pull")
            /\ u_i' = 1
            /\ u_pc' = "repos"
            /\ UNCHANGED u_exit
    /\ UNCHANGED <<u_env, u_cmds, u_results>>
    /\ UNCHANGED updateOthers

\* update_all_repos: `results['skipped'].append(repo_name); continue`
SkipRepo ==
    /\ InLoop
    /\ not_a_checkout(CurrentRepo)
    /\ u_results' = [u_results EXCEPT !.skipped = Append(@, u_i)]
    /\ u_i' = u_i + 1
    /\ UNCHANGED <<u_env, u_cmds, u_trace, u_exit, u_pc>>
    /\ UNCHANGED updateOthers

\* git_pull_repo: `git status --porcelain`
GitStatus ==
    /\ InLoop
    /\ ~not_a_checkout(CurrentRepo)
    /\ u_cmds' = Ran("status")
    /\ IF ~CurrentRepo.status_ok \/ uncommitted_changes(CurrentRepo)
       THEN PullFailed
       ELSE u_pc' = "status_done" /\ UNCHANGED <<u_results, u_i>>
    /\ UNCHANGED <<u_env, u_trace, u_exit>>
    /\ UNCHANGED updateOthers

\* git_pull_repo: `git symbolic-ref refs/remotes/origin/HEAD`
GitSymbolicRef ==
    /\ u_pc = "status_done"
    /\ u_cmds' = Ran("symbolic-ref")
    /\ IF ~CurrentRepo.symref_ok
       THEN PullFailed
       ELSE u_pc' = "symbolic_ref_done" /\ UNCHANGED <<u_results, u_i>>
    /\ UNCHANGED <<u_env, u_trace, u_exit>>
    /\ UNCHANGED updateOthers

\* git_pull_repo: `git checkout <default branch>`
GitCheckout ==
    /\ u_pc = "symbolic_ref_done"
    /\ u_cmds' = Ran("checkout")
    /\ IF ~CurrentRepo.checkout_ok
       THEN PullFailed
       ELSE u_pc' = "checkout_done" /\ UNCHANGED <<u_results, u_i>>
    /\ UNCHANGED <<u_env, u_trace, u_exit>>
    /\ UNCHANGED updateOthers

\* git_pull_repo: `git pull`, and update_all_repos' `if success:`
GitPull ==
    /\ u_pc = "checkout_done"
    /\ u_cmds' = Ran("pull")
    /\ IF ~CurrentRepo.pull_ok
       THEN PullFailed
       ELSE /\ u_results' = [u_results EXCEPT !.success = Append(@, u_i)]
            /\ u_i' = u_i + 1
            /\ u_pc' = "repos"
    /\ UNCHANGED <<u_env, u_trace, u_exit>>
    /\ UNCHANGED updateOthers

\* main: `extract_success = run_extract_releases(code_base_path)`
RunExtractReleases ==
    /\ u_pc = "repos"
    /\ u_i = Len(u_env.repos) + 1
    /\ u_trace' = Append(u_trace, "extract")
    /\ IF run_extract_releases(u_env)
       THEN u_pc' = "extracted" /\ UNCHANGED u_exit
       ELSE u_exit' = 1 /\ u_pc' = "exited"
    /\ UNCHANGED <<u_env, u_i, u_cmds, u_results>>
    /\ UNCHANGED updateOthers

\* main: `analysis_success = run_adoption_analysis()`
RunAdoptionAnalysis ==
    /\ u_pc = "extracted"
    /\ u_trace' = Append(u_trace, "analyze")
    /\ u_exit' = IF run_adoption_analysis(u_env) THEN 0 ELSE 1
    /\ u_pc' = "exited"
    /\ UNCHANGED <<u_env, u_i, u_cmds, u_results>>
    /\ UNCHANGED updateOthers

UpdateNext ==
    \/ UpdateStart
    \/ SkipRepo
    \/ GitStatus
    \/ GitSymbolicRef
    \/ GitCheckout
    \/ GitPull
    \/ RunExtractReleases
    \/ RunAdoptionAnalysis

SpecUpdate == UpdateInit /\ [][UpdateNext]_vars

\* ---- the run seen from outside ----
IsPrefix(a, b) == Len(a) <= Len(b) /\ a = SubSeq(b, 1, Len(a))

Started(step) == \E k \in 1..Len(u_trace) : u_trace[k] = step

\* the commands run for a repository, in the order run
RECURSIVE CommandsOf(_, _)
CommandsOf(cmds, i) ==
    IF cmds = <<>> THEN <<>>
    ELSE (IF Head(cmds).repo = i THEN <<Head(cmds).cmd>> ELSE <<>>) \o CommandsOf(Tail(cmds), i)

Has(list, i) == \E k \in 1..Len(list) : list[k] = i

Occurrences(list, i) == Cardinality({k \in 1..Len(list) : list[k] = i})

\* C28: main runs 'pull all repositories', 'extract releases', 'analyze
\* adoption' in this order; a configuration error returns 1 before any
\* repository is touched; failed pulls do not stop the run; the analysis is
\* started only if the extraction succeeded; the exit code is 0 only if both
\* the extraction and the analysis succeeded.
C28_UpdateStepsInOrder ==
    /\ IsPrefix(u_trace, <<"pull", "extract", "analyze">>)
    /\ u_env.config # "ok" =>
          /\ u_trace = <<>> /\ u_cmds = <<>>
          /\ u_results = [success |-> <<>>, failed |-> <<>>, skipped |-> <<>>]
          /\ u_pc = "exited" => u_exit = 1
    /\ (u_cmds # <<>> \/ Started("extract")) => Started("pull")
    /\ (u_pc = "exited" /\ u_env.config = "ok") =>
          /\ Started("extract")
          /\ u_i = Len(u_env.repos) + 1
    /\ Started("analyze") => (u_env.neptune_web /\ u_env.extract_ok)
    /\ (Started("extract") /\ u_env.neptune_web /\ u_env.extract_ok /\ u_pc = "exited")
          => Started("analyze")
    /\ u_pc = "exited" =>
          (u_exit = 0 <=> /\ u_env.config = "ok"
                          /\ u_env.neptune_web /\ u_env.extract_ok
                          /\ u_env.releases_file /\ u_env.analysis_ok)
    /\ u_pc = "exited" => u_exit \in {0, 1}

\* C28's case: a run in which a pull failed and that went on to extract,
\* analyze and exit with 0
C28_Witness ==
    /\ u_pc = "exited"
    /\ u_exit = 0
    /\ u_results.failed # <<>>
    /\ u_trace = <<"pull", "extract", "analyze">>

\* a run stopped by a configuration error
C28_ConfigurationError ==
    /\ u_pc = "exited"
    /\ u_env.config # "ok"
    /\ u_exit = 1

\* C29: git_pull_repo never runs `git checkout` or `git pull` on a
\* repository whose `git status --porcelain` output is not empty; it runs
\* status, symbolic-ref, checkout, pull in this order, each only if all the
\* earlier ones succeeded, and returns success only if the pull succeeded.
C29_PullOnlyCleanInOrder ==
    u_env.present =>
        \A i \in 1..Len(u_env.repos) :
            LET ran == CommandsOf(u_cmds, i)
                repo == u_env.repos[i]
            IN /\ IsPrefix(ran, <<"status", "symbolic-ref", "checkout", "pull">>)
               /\ repo.dirty => IsPrefix(ran, <<"status">>)
               /\ Len(ran) >= 2 => repo.status_ok
               /\ Len(ran) >= 3 => repo.symref_ok
               /\ Len(ran) >= 4 => repo.checkout_ok
               /\ Has(u_results.success, i) => (Len(ran) = 4 /\ repo.pull_ok)
               /\ (Len(ran) = 4 /\ i < u_i /\ ~repo.pull_ok) => Has(u_results.failed, i)

\* C29's case: a working copy with uncommitted changes, after its status
\* was read, and a clean one pulled in the same run
C29_Witness ==
    /\ u_env.present
    /\ \E i \in 1..Len(u_env.repos) :
          /\ u_env.repos[i].dirty
          /\ CommandsOf(u_cmds, i) = <<"status">>
          /\ Has(u_results.failed, i)
    /\ \E i \in 1..Len(u_env.repos) :
          /\ CommandsOf(u_cmds, i) = <<"status", "symbolic-ref", "checkout", "pull">>
          /\ Has(u_results.success, i)

UpdatedAll == u_env.present /\ Started("pull") /\ u_i = Len(u_env.repos) + 1

\* C30: after update_all_repos every name of REPO_NAMES is in exactly one
\* of 'success', 'failed', 'skipped', once; the sizes of the three lists sum
\* to the number of names; a repository is in 'skipped' exactly when its
\* directory is missing or has no .git, and no git command was run for it.
C30_ResultsPartitionRepoNames ==
    UpdatedAll =>
        /\ \A i \in 1..Len(u_env.repos) :
              /\ Occurrences(u_results.success, i) + Occurrences(u_results.failed, i)
                    + Occurrences(u_results.skipped, i) = 1
              /\ Has(u_results.skipped, i)
                    <=> (~u_env.repos[i].exists \/ ~u_env.repos[i].has_git)
              /\ Has(u_results.skipped, i) => CommandsOf(u_cmds, i) = <<>>
        /\ Len(u_results.success) + Len(u_results.failed) + Len(u_results.skipped)
              = Len(u_env.repos)
        /\ \A k \in 1..Len(u_cmds) : u_cmds[k].repo \in 1..Len(u_env.repos)

\* C30's case: one repository skipped for want of .git, the other failed
C30_Witness ==
    /\ UpdatedAll
    /\ Len(u_env.repos) = 2
    /\ \E i \in 1..2 : u_env.repos[i].exists /\ ~u_env.repos[i].has_git
                       /\ Has(u_results.skipped, i)
    /\ Len(u_results.failed) = 1

====
